---- MODULE Spec2Model ----
(***************************************************************************)
(* A model of the daily-ai-digest backend: the search client               *)
(* (search_google_news), the query planner (generate_search_queries), the  *)
(* search orchestrator (search_with_optimized_queries), the content        *)
(* fetcher (ArticleParser), the digest synthesizer (DigestGenerator) and   *)
(* the formatter (format_simple_digest, create_digest).                    *)
(*                                                                         *)
(* Strings are sequences of tokens: "" is << >>, concatenation is \o, and  *)
(* "x in s" for a keyword x is membership of the token x in s.             *)
(***************************************************************************)
EXTENDS Integers, Sequences, FiniteSets, TLC

VARIABLES
    GOOGLE_API_KEY,   \* TRUE iff the search credentials are configured (main.py 23-24)
    claude_client,    \* TRUE iff the model client is configured (main.py 31-33)
    topic,            \* the topic of the request
    held,             \* the number of items the search provider holds (SpecHeld, SpecRequest)
    entry,            \* which function the environment has called: "idle", "search", "orchestrate"
    \* ---- search_google_news: locals of the running call
    s_pc,             \* "idle", "request" (a page request is in flight), "returned"
    query,            \* parameter query
    num_results,      \* parameter num_results, after line 89-90
    search_query,     \* the text sent to the provider (params["q"])
    articles,         \* local list articles
    start_index,      \* loop variable of the pagination loop
    retry_count,      \* local retry_count
    s_result,         \* the value the call returned
    s_raised,         \* TRUE iff the call left by an exception
    requests,         \* history: one record per requests.get of the running call
    \* ---- search_with_optimized_queries: locals of the running call
    o_pc,             \* "idle", "tier1", "tier2", "tier3", "done"
    queries,          \* the planner's queries
    qi,               \* index of the query being executed in tier 1
    all_articles,     \* local list all_articles
    seen_urls,        \* local set seen_urls
    o_result,         \* the value the call returned
    calls,            \* history: the calls of search_google_news per tier
    \* ---- ArticleParser.fetch_multiple_articles: the running call
    e_pc,             \* "idle", "running", "returned", "raised"
    max_workers,      \* parameter max_workers
    input,            \* history: the articles as they were passed in
    arts,             \* parameter articles: the dicts, which the workers update in place
    task,             \* per article: "queued", "fetching", "done", "failed"
    ret,              \* per article: what fetch_and_add_content returned
    page_outcome,     \* history, per article: what its page fetch did
    e_result,         \* the value the call returned
    \* ---- DigestGenerator.generate_digest: the running call
    d_pc,             \* "idle", "calling" (the model call is in flight), "returned"
    d_articles,       \* parameter articles
    d_sections,       \* history: the sections the model's reply was made of
    d_model,          \* history: "none", "skipped", "raised", "replied"
    d_result,         \* the value the call returned
    d_raised,         \* TRUE iff the call left by an exception
    d_prompt,         \* history: the prompt sent to the model
    \* ---- generate_search_queries, called on its own
    p_pc,             \* "idle", "planned"
    p_outcome,        \* history: what the model call did, its reply and the queries parsed
    p_queries,        \* the value the call returned
    \* ---- ArticleParser.fetch_article_content on a page that was fetched
    t_pc,             \* "idle", "extracted", "stored"
    t_text,           \* the text extracted from the page, one character per token
    t_content,        \* the value fetch_article_content returned
    t_stored,         \* article["content"] after fetch_and_add_content
    \* ---- the formatter: format_simple_digest and main.py 467-488
    f_pc,             \* "idle", "formatted"
    f_mode,           \* "simple", "ai"
    f_articles,       \* the articles the digest is made from
    f_data,           \* AI mode: the DigestResult
    f_digest,         \* the digest text
    \* ---- create_digest: the running request
    h_pc,             \* "idle", "accepted", "fetching", "synthesizing", "responded"
    h_phone,          \* req.phone_number
    h_ai,             \* req.generate_ai_digest
    h_status,         \* the status of the response, 0 before it
    h_articles,       \* local articles
    h_digest          \* local digest

searchVars == <<s_pc, query, num_results, search_query, articles, start_index,
                retry_count, s_result, s_raised, requests>>
orchVars == <<o_pc, queries, qi, all_articles, seen_urls, o_result, calls>>
enrichVars == <<e_pc, max_workers, input, arts, task, ret, page_outcome, e_result>>
envVars == <<GOOGLE_API_KEY, claude_client, topic, held>>
synthVars == <<d_pc, d_articles, d_sections, d_model, d_result, d_raised, d_prompt>>
planVars == <<p_pc, p_outcome, p_queries>>
trimVars == <<t_pc, t_text, t_content, t_stored>>
formatVars == <<f_pc, f_mode, f_articles, f_data, f_digest>>
handlerVars == <<h_pc, h_phone, h_ai, h_status, h_articles, h_digest>>
vars == <<envVars, entry, searchVars, orchVars, enrichVars,
          synthVars, planVars, trimVars, formatVars, handlerVars>>

----------------------------------------------------------------------------
(* Bounds of the model *)

\* direct calls of search_google_news use num_results in 0..MaxDirect
MaxDirect == 21
\* a page holds at most MaxBad items that miss their title or their link
MaxBad == 2
\* the provider numbers the links of a page from 1 or from 1 + LinkShift
LinkShift == 2
\* the provider's links repeat with period LinkPeriod, or do not repeat
LinkPeriod == 3
\* the length of the provider's short pages
SHORT_PAGE == 3
\* the model's reply to the planner holds at most MaxReplyLines numbered lines
MaxReplyLines == 6
\* fetch_multiple_articles is called with at most MaxArticles articles
MaxArticles == 3
\* and with max_workers = SmallPool or the default
SmallPool == 2
\* the texts extracted from a page: see TextLengths
NearLen == 3
FarLen == 5000
\* and their characters follow one of TextPatterns patterns
TextPatterns == 5
\* the article of generate_digest whose content is longer than the prompt allows
LongContentAt == 7
\* the list that fills the pool of fetch_multiple_articles has PoolArticles articles
PoolArticles == 7
\* the provider of SpecHeld holds at most MaxHeld items
MaxHeld == 13
\* generate_digest is called with at most MaxDigestArticles articles
MaxDigestArticles == 7
\* the provider of SpecRequest holds no item or RequestHeld items
RequestHeld == 2

(* Program constants *)

max_retries == 2
PAGE_SIZE == 10
MAX_RESULTS == 20
HANDLER_RESULTS == 20
DEFAULT_RESULTS == 10
QUERY_RESULTS == 5
DIRECT_RESULTS == 10
MAX_QUERIES == 5
DEFAULT_WORKERS == 5
SMS_ARTICLES == 5
SNIPPET_LIMIT == 100
MAX_CONTENT == 10000
CONTENT_LIMIT == 5000
MOCK_STOP == 6
MOCK_SOURCES == 3

----------------------------------------------------------------------------
(* Strings *)

Topics == { << >>, <<"pope">>, <<"electric", " ", "vehicles">> }

DigitTok == <<"0", "1", "2", "3", "4", "5", "6", "7", "8", "9">>

\* the link of the provider's k-th document
Url(k) == <<"https://news.site/", DigitTok[((k \div 10) % 10) + 1], DigitTok[(k % 10) + 1]>>

Min(a, b) == IF a <= b THEN a ELSE b

----------------------------------------------------------------------------
(* The search provider: the items of a page *)

\* item i of a page: the first `bad` items miss the title (odd i) or the link (even i)
Item(start, i, bad, off, per) ==
    [ title |-> IF i <= bad /\ i % 2 = 1 THEN << >> ELSE <<"headline">>,
      link  |-> IF i <= bad /\ i % 2 = 0 THEN << >>
                ELSE Url(off + ((start - 1 + i - 1) % per) + 1),
      snippet |-> <<"snippet">>,
      displayLink |-> <<"news.site">> ]

PageOf(start, raw, bad, off, per) == [ i \in 1..raw |-> Item(start, i, bad, off, per) ]

\* the provider honours params["num"]: a page holds at most num items
RawCounts(num) == { r \in {0, SHORT_PAGE, PAGE_SIZE} : r <= num } \cup {num}

\* the provider either numbers its links from 1 without repeating any, or from
\* 1 + LinkShift repeating them with period LinkPeriod
LinkPlans == { [off |-> 0, per |-> MAX_RESULTS + PAGE_SIZE], [off |-> LinkShift, per |-> LinkPeriod] }

Pages(start, num) ==
    { PageOf(start, raw, bad, plan.off, plan.per) :
        raw \in RawCounts(num), bad \in {0, MaxBad}, plan \in LinkPlans }

\* a provider that holds `held` items with pairwise distinct links and serves
\* them in pages: the items start .. start + num - 1 of those it holds
HeldPage(start, num) ==
    LET n == IF held - start + 1 < 0 THEN 0 ELSE Min(num, held - start + 1)
    IN  PageOf(start, n, 0, 0, MaxHeld + PAGE_SIZE)

----------------------------------------------------------------------------
(* search_google_news *)

specific_topics == {"pope", "vatican", "catholic", "catholicism", "papacy"}

\* lines 93-100
SearchQuery(q) ==
    IF \E i \in DOMAIN q : q[i] \in specific_topics
    THEN q
    ELSE q \o <<" ", "news">>

\* class Article, lines 56-62, as built on line 188
Article(item) ==
    [ title |-> item.title, link |-> item.link, snippet |-> item.snippet,
      source |-> item.displayLink, published |-> <<"<None>">> ]

\* lines 165-188: the items of a page that have a title and a link, as Articles
RECURSIVE ExtractArticles(_)
ExtractArticles(items) ==
    IF items = << >> THEN << >>
    ELSE LET item == Head(items)
         IN  IF item.title = << >> \/ item.link = << >>
             THEN ExtractArticles(Tail(items))
             ELSE <<Article(item)>> \o ExtractArticles(Tail(items))

\* a request record of the history
Req(status, raw, slept) ==
    [ start |-> start_index, status |-> status, raw |-> raw, slept |-> slept,
      q |-> search_query, num |-> Min(num_results, PAGE_SIZE) ]

\* the call returns value (lines 199-208: every exception ends in "return []")
SearchReturn(value) ==
    /\ s_pc' = "returned"
    /\ s_result' = value
    /\ s_raised' = FALSE

\* an exception leaves the pagination loop: the handlers of lines 200-208
SearchExcept == SearchReturn(<< >>)

\* lines 77-120: the call up to its first page request
SearchCall(q, n) ==
    /\ query' = q
    /\ requests' = << >>
    /\ articles' = << >>
    /\ start_index' = 1
    /\ retry_count' = 0
    /\ num_results' = IF n <= 0 \/ n > MAX_RESULTS THEN DEFAULT_RESULTS ELSE n
    /\ search_query' = SearchQuery(q)
    /\ IF ~GOOGLE_API_KEY \/ q = << >>
       THEN SearchReturn(<< >>)
       ELSE /\ s_pc' = "request"
            /\ UNCHANGED <<s_result, s_raised>>

\* mutant: the end of the results is judged by the articles kept of the page
MutPageArrivedCountsKept(items) ==
    LET kept == ExtractArticles(items)
        collected == articles \o kept
    IN  /\ requests' = Append(requests, Req("200", Len(items), FALSE))
        /\ IF Len(kept) < PAGE_SIZE
           THEN /\ SearchReturn(collected)
                /\ articles' = collected
                /\ UNCHANGED <<start_index, retry_count>>
           ELSE IF Len(collected) >= num_results
           THEN /\ SearchReturn(SubSeq(collected, 1, num_results))
                /\ articles' = SubSeq(collected, 1, num_results)
                /\ UNCHANGED <<start_index, retry_count>>
           ELSE IF start_index + PAGE_SIZE <= num_results
           THEN /\ articles' = collected
                /\ start_index' = start_index + PAGE_SIZE
                /\ retry_count' = 0
                /\ UNCHANGED <<s_pc, s_result, s_raised>>
           ELSE /\ SearchReturn(collected)
                /\ articles' = collected
                /\ UNCHANGED <<start_index, retry_count>>

\* lines 160-197: a page arrived with status 200
PageArrived(items) ==
    LET collected == articles \o ExtractArticles(items)
    IN  /\ requests' = Append(requests, Req("200", Len(items), FALSE))
        /\ IF Len(items) < PAGE_SIZE
           THEN /\ SearchReturn(collected)
                /\ articles' = collected
                /\ UNCHANGED <<start_index, retry_count>>
           ELSE IF Len(collected) >= num_results
           THEN /\ SearchReturn(SubSeq(collected, 1, num_results))
                /\ articles' = SubSeq(collected, 1, num_results)
                /\ UNCHANGED <<start_index, retry_count>>
           ELSE IF start_index + PAGE_SIZE <= num_results
           THEN /\ articles' = collected
                /\ start_index' = start_index + PAGE_SIZE
                /\ retry_count' = 0
                /\ UNCHANGED <<s_pc, s_result, s_raised>>
           ELSE /\ SearchReturn(collected)
                /\ articles' = collected
                /\ UNCHANGED <<start_index, retry_count>>

\* lines 129-133: the provider answers 200 with a page
RespondOk ==
    /\ s_pc = "request"
    /\ \E items \in Pages(start_index, Min(num_results, PAGE_SIZE)) : PageArrived(items)
    /\ UNCHANGED <<query, num_results, search_query>>
    /\ UNCHANGED <<envVars, handlerVars, synthVars, planVars, trimVars, formatVars, entry, orchVars, enrichVars>>

\* lines 129-133: the provider that holds `held` items answers 200 with a page
RespondHeld ==
    /\ s_pc = "request"
    /\ PageArrived(HeldPage(start_index, Min(num_results, PAGE_SIZE)))
    /\ UNCHANGED <<query, num_results, search_query>>
    /\ UNCHANGED <<envVars, handlerVars, synthVars, planVars, trimVars, formatVars, entry, orchVars, enrichVars>>

\* mutant: the retry budget is compared one too late
MutServerErrorOffByOne ==
    /\ s_pc = "request"
    /\ retry_count' = retry_count + 1
    /\ IF retry_count <= max_retries
       THEN /\ requests' = Append(requests, Req("5xx", 0, TRUE))
            /\ UNCHANGED <<s_pc, s_result, s_raised>>
       ELSE /\ requests' = Append(requests, Req("5xx", 0, FALSE))
            /\ SearchReturn(articles)
    /\ UNCHANGED <<query, num_results, search_query, articles, start_index>>
    /\ UNCHANGED <<envVars, handlerVars, synthVars, planVars, trimVars, formatVars, entry, orchVars, enrichVars>>

\* lines 134-141 and 156-158: the provider answers with a status >= 500
RespondServerError ==
    /\ s_pc = "request"
    /\ retry_count' = retry_count + 1
    /\ IF retry_count + 1 <= max_retries
       THEN /\ requests' = Append(requests, Req("5xx", 0, TRUE))
            /\ UNCHANGED <<s_pc, s_result, s_raised>>
       ELSE /\ requests' = Append(requests, Req("5xx", 0, FALSE))
            /\ SearchReturn(articles)
    /\ UNCHANGED <<query, num_results, search_query, articles, start_index>>
    /\ UNCHANGED <<envVars, handlerVars, synthVars, planVars, trimVars, formatVars, entry, orchVars, enrichVars>>

\* mutant: a client error is retried like a server error
MutClientErrorRetried ==
    /\ s_pc = "request"
    /\ retry_count' = retry_count + 1
    /\ IF retry_count + 1 <= max_retries
       THEN /\ requests' = Append(requests, Req("4xx", 0, TRUE))
            /\ UNCHANGED <<s_pc, s_result, s_raised>>
       ELSE /\ requests' = Append(requests, Req("4xx", 0, FALSE))
            /\ SearchReturn(articles)
    /\ UNCHANGED <<query, num_results, search_query, articles, start_index>>
    /\ UNCHANGED <<envVars, handlerVars, synthVars, planVars, trimVars, formatVars, entry, orchVars, enrichVars>>

\* lines 142-145 and 156-158: the provider answers with another status
RespondClientError ==
    /\ s_pc = "request"
    /\ requests' = Append(requests, Req("4xx", 0, FALSE))
    /\ SearchReturn(articles)
    /\ UNCHANGED <<query, num_results, search_query, articles, start_index, retry_count>>
    /\ UNCHANGED <<envVars, handlerVars, synthVars, planVars, trimVars, formatVars, entry, orchVars, enrichVars>>

\* mutant: a timed-out request is repeated without counting against max_retries
MutTimeoutNoBudget ==
    /\ s_pc = "request"
    /\ requests' = Append(requests, Req("timeout", 0, TRUE))
    /\ UNCHANGED <<s_pc, s_result, s_raised, retry_count>>
    /\ UNCHANGED <<query, num_results, search_query, articles, start_index>>
    /\ UNCHANGED <<envVars, handlerVars, synthVars, planVars, trimVars, formatVars, entry, orchVars, enrichVars>>

\* lines 146-153: requests.get raises Timeout or ConnectionError
RespondTimeout ==
    /\ s_pc = "request"
    /\ retry_count' = retry_count + 1
    /\ IF retry_count + 1 <= max_retries
       THEN /\ requests' = Append(requests, Req("timeout", 0, TRUE))
            /\ UNCHANGED <<s_pc, s_result, s_raised>>
       ELSE /\ requests' = Append(requests, Req("timeout", 0, FALSE))
            /\ SearchExcept
    /\ UNCHANGED <<query, num_results, search_query, articles, start_index>>
    /\ UNCHANGED <<envVars, handlerVars, synthVars, planVars, trimVars, formatVars, entry, orchVars, enrichVars>>

\* a caller other than the orchestrator calls search_google_news(topic, n)
\* (create_digest does on line 439, with n = 20)
DirectSearch ==
    /\ entry = "idle"
    /\ entry' = "search"
    /\ \E n \in 0..MaxDirect : SearchCall(topic, n)
    /\ UNCHANGED <<envVars, handlerVars, synthVars, planVars, trimVars, formatVars, orchVars, enrichVars>>

----------------------------------------------------------------------------
(* generate_search_queries *)

\* the i-th query of the model's reply
ReplyQuery(i) == <<"query", " ", DigitTok[(i % 10) + 1]>>

\* lines 218: the queries used without a model client
NoClientQueries(t) ==
    << t \o <<" ", "latest news">>, t \o <<" ", "recent events">>, t \o <<" ", "today">>,
       t \o <<" ", "updates">>, t \o <<" ", "current">> >>

\* lines 275 and 283: the queries used when the model call fails or yields no query
DefaultQueries(t) ==
    << t \o <<" ", "latest news">>, t \o <<" ", "analysis">>, t \o <<" ", "developments">>,
       t \o <<" ", "trends">>, t \o <<" ", "impact">> >>

\* what the model call can do: raise, or reply with n parseable numbered lines
PlannerOutcomes == {"raise"} \cup ({"reply"} \X {0, 1, MaxReplyLines})

\* lines 210-283
generate_search_queries(t, outcome) ==
    IF ~claude_client THEN NoClientQueries(t)
    ELSE IF outcome = "raise" THEN DefaultQueries(t)
    ELSE LET parsed == [ i \in 1..outcome[2] |-> ReplyQuery(i) ]
         IN  IF parsed = << >> THEN DefaultQueries(t)
             ELSE SubSeq(parsed, 1, Min(Len(parsed), MAX_QUERIES))

----------------------------------------------------------------------------
(* search_with_optimized_queries *)

\* Article.to_dict, lines 64-71
to_dict(article) == article

\* mutant: the link of an appended article is not added to the seen links
RECURSIVE MutMergeForgetsSeen(_, _, _)
MutMergeForgetsSeen(all, seen, results) ==
    IF results = << >> THEN [ all |-> all, seen |-> seen ]
    ELSE LET article == Head(results)
         IN  IF article.link \notin seen
             THEN MutMergeForgetsSeen(Append(all, article), seen, Tail(results))
             ELSE MutMergeForgetsSeen(all, seen, Tail(results))

\* lines 307-311, 328-331, 340-343: append the results whose link was not seen
RECURSIVE Merge(_, _, _)
Merge(all, seen, results) ==
    IF results = << >> THEN [ all |-> all, seen |-> seen ]
    ELSE LET article == Head(results)
         IN  IF article.link \notin seen
             THEN Merge(Append(all, to_dict(article)), seen \cup {article.link}, Tail(results))
             ELSE Merge(all, seen, Tail(results))

\* topic.replace(' ', '_')
Underscored(t) == [ i \in DOMAIN t |-> IF t[i] = " " THEN "_" ELSE t[i] ]

\* mutant: the placeholder carries no link, as get_empty_article_response does
MutMockArticleNoLink(t) ==
    [ title |-> <<"Information about ">> \o t,
      link  |-> << >>,
      snippet |-> <<"We couldn't find recent news articles specifically about ">> \o t
                  \o <<". This may be because there aren't any recent developments, or the search terms need refinement. Try checking major news outlets directly for information about ">>
                  \o t \o <<".">>,
      source |-> <<"System Message">>,
      published |-> <<"2", "0", "2", "6", "-", "0", "1", "-", "0", "1", "T", "0", "9", ":", "0", "0">>,
      content |-> <<"No recent articles were found about ">> \o t
                  \o <<". This might be because there are no major recent developments on this topic, or because the search terms need to be more specific. You might try searching directly on major news websites for more information.">> ]

\* lines 350-357
mock_article(t) ==
    [ title |-> <<"Information about ">> \o t,
      link  |-> <<"https://en.wikipedia.org/wiki/">> \o Underscored(t),
      snippet |-> <<"We couldn't find recent news articles specifically about ">> \o t
                  \o <<". This may be because there aren't any recent developments, or the search terms need refinement. Try checking major news outlets directly for information about ">>
                  \o t \o <<".">>,
      source |-> <<"System Message">>,
      published |-> <<"2", "0", "2", "6", "-", "0", "1", "-", "0", "1", "T", "0", "9", ":", "0", "0">>,
      content |-> <<"No recent articles were found about ">> \o t
                  \o <<". This might be because there are no major recent developments on this topic, or because the search terms need to be more specific. You might try searching directly on major news websites for more information.">> ]

\* the history after the call in flight of the given tier has returned: the
\* number of calls issued per tier, and whether a call of the tier returned an article
Called(tier) ==
    [ issued   |-> [calls.issued EXCEPT ![tier] = @ + 1],
      yielded  |-> [calls.yielded EXCEPT ![tier] = @ \/ s_result # << >>],
      repeated |-> calls.repeated
                   \/ \E i \in DOMAIN s_result :
                        \/ s_result[i].link \in seen_urls
                        \/ \E j \in 1..(i - 1) : s_result[j].link = s_result[i].link ]

\* lines 290-304: plan the queries and execute the first one
PlanAndSearch ==
    /\ \E outcome \in PlannerOutcomes :
         /\ claude_client \/ outcome = "raise"
         /\ queries' = generate_search_queries(topic, outcome)
    /\ all_articles' = << >>
    /\ seen_urls' = {}
    /\ qi' = 1
    /\ o_pc' = "tier1"
    /\ SearchCall(queries'[1], QUERY_RESULTS)
    /\ UNCHANGED <<o_result, calls>>

\* search_with_optimized_queries(topic) is called
Orchestrate ==
    /\ entry = "idle"
    /\ entry' = "orchestrate"
    /\ PlanAndSearch
    /\ UNCHANGED <<envVars, handlerVars, synthVars, planVars, trimVars, formatVars, enrichVars>>

\* lines 301-315: merge the results of a query and execute the next one
Tier1Next ==
    /\ o_pc = "tier1" /\ s_pc = "returned"
    /\ qi < Len(queries)
    /\ LET m == Merge(all_articles, seen_urls, s_result)
       IN  /\ all_articles' = m.all
           /\ seen_urls' = m.seen
    /\ calls' = Called(1)
    /\ qi' = qi + 1
    /\ SearchCall(queries[qi + 1], QUERY_RESULTS)
    /\ UNCHANGED <<envVars, handlerVars, synthVars, planVars, trimVars, formatVars, enrichVars, entry, o_pc, queries, o_result>>

\* the function returns all_articles (line 360)
OrchReturn(value) ==
    /\ o_pc' = "done"
    /\ o_result' = value
    /\ s_pc' = "idle"
    /\ query' = << >>
    /\ num_results' = 0
    /\ search_query' = << >>
    /\ articles' = << >>
    /\ start_index' = 1
    /\ retry_count' = 0
    /\ s_result' = << >>
    /\ requests' = << >>
    /\ UNCHANGED s_raised

\* lines 306-325: merge the results of the last query; direct search if nothing was found
Tier1Last ==
    /\ o_pc = "tier1" /\ s_pc = "returned"
    /\ qi = Len(queries)
    /\ calls' = Called(1)
    /\ LET m == Merge(all_articles, seen_urls, s_result)
       IN  /\ all_articles' = m.all
           /\ seen_urls' = m.seen
           /\ IF m.all = << >>
              THEN /\ o_pc' = "tier2"
                   /\ SearchCall(topic, DIRECT_RESULTS)
                   /\ UNCHANGED o_result
              ELSE OrchReturn(m.all)
    /\ UNCHANGED <<envVars, handlerVars, synthVars, planVars, trimVars, formatVars, enrichVars, entry, queries, qi>>

\* mutant: the "news" search is made whether or not the direct search found articles
MutTier2AlwaysNews ==
    /\ o_pc = "tier2" /\ s_pc = "returned"
    /\ calls' = Called(2)
    /\ LET m == Merge(all_articles, seen_urls, s_result)
       IN  /\ all_articles' = m.all
           /\ seen_urls' = m.seen
           /\ o_pc' = "tier3"
           /\ SearchCall(topic \o <<" ", "news">>, DIRECT_RESULTS)
           /\ UNCHANGED o_result
    /\ UNCHANGED <<envVars, handlerVars, synthVars, planVars, trimVars, formatVars, enrichVars, entry, queries, qi>>

\* lines 327-337: merge the direct results; "news" search if nothing was found
Tier2Return ==
    /\ o_pc = "tier2" /\ s_pc = "returned"
    /\ calls' = Called(2)
    /\ LET m == Merge(all_articles, seen_urls, s_result)
       IN  /\ all_articles' = m.all
           /\ seen_urls' = m.seen
           /\ IF m.all = << >>
              THEN /\ o_pc' = "tier3"
                   /\ SearchCall(topic \o <<" ", "news">>, DIRECT_RESULTS)
                   /\ UNCHANGED o_result
              ELSE OrchReturn(m.all)
    /\ UNCHANGED <<envVars, handlerVars, synthVars, planVars, trimVars, formatVars, enrichVars, entry, queries, qi>>

\* lines 339-360: merge the "news" results; the mock article if nothing was found
Tier3Return ==
    /\ o_pc = "tier3" /\ s_pc = "returned"
    /\ calls' = Called(3)
    /\ LET m == Merge(all_articles, seen_urls, s_result)
           final == IF m.all = << >> THEN <<mock_article(topic)>> ELSE m.all
       IN  /\ all_articles' = final
           /\ seen_urls' = m.seen
           /\ OrchReturn(final)
    /\ UNCHANGED <<envVars, handlerVars, synthVars, planVars, trimVars, formatVars, enrichVars, entry, queries, qi>>

----------------------------------------------------------------------------
(* ArticleParser: article_parser.py *)

\* Python's None, and a key a dict does not have
None == <<"<None>">>
Absent == <<"<absent>">>
\* a value that is not a string
NotAString == <<"<int>">>

Falsy(x) == x \in {Absent, None, << >>}

\* datetime.now().isoformat(), one character per token
NowIso == <<"2", "0", "2", "6", "-", "0", "1", "-", "0", "1", "T", "0", "9", ":", "0", "0">>

Has(str, ch) == \E i \in DOMAIN str : str[i] = ch

\* str[-k:]
LastChars(str, k) == SubSeq(str, IF Len(str) > k THEN Len(str) - k + 1 ELSE 1, Len(str))

\* lines 103-126
NormalizePublished(pub) ==
    IF Falsy(pub) THEN NowIso \o <<"Z">>
    ELSE IF ~Has(pub, "Z") /\ ~Has(pub, "+") /\ ~Has(LastChars(pub, 6), "-")
    THEN pub \o <<"Z">>
    ELSE IF Has(pub, "+") /\ ~Has(pub, "T")
    THEN NowIso \o <<"Z">>
    ELSE pub

\* what the fetch of a page can do: requests.get or the parsing raises; the
\* status is not 200; the page has no body; the text extracted is empty, at
\* most 10,000 characters long, or longer
FetchOutcomes == {"raise", "status", "nobody", "empty", "short", "long"}

\* lines 15-80: the value returned for the url under the outcome
fetch_article_content(url, o) ==
    CASE o = "raise"  -> <<"Error processing article: ", "<exception>">>
      [] o = "status" -> None
      [] o = "nobody" -> <<"Could not extract content from ">> \o url
      [] o = "empty"  -> << >>
      [] o = "short"  -> <<"<text>">>
      [] o = "long"   -> <<"<text[:10000]>", "... [content truncated]">>

\* mutant: fetch_and_add_content lets the exception through
MutHandlerReraises(article) == [ raised |-> TRUE, article |-> article ]

\* lines 135-138: the handler of fetch_and_add_content
HandleFetchError(article) ==
    [ raised |-> FALSE,
      article |-> [article EXCEPT !.content = <<"Error fetching content: ", "<exception>">>] ]

\* lines 90-127: fetch_and_add_content up to the fetch of the page;
\* fetch is TRUE iff the page is to be fetched
BeginFetch(article) ==
    IF Falsy(article.link)
    THEN [ fetch |-> FALSE, raised |-> FALSE,
           article |-> [article EXCEPT !.content = <<"No URL available for this article">>] ]
    ELSE IF article.link = NotAString
    THEN HandleFetchError(article) @@ [ fetch |-> FALSE ]
    ELSE IF Has(article.link, "example.com")
    THEN [ fetch |-> FALSE, raised |-> FALSE,
           article |-> [article EXCEPT !.content =
                          (IF article.title = Absent THEN <<"No title">> ELSE article.title)
                          \o <<". ">>
                          \o (IF article.snippet = Absent THEN << >> ELSE article.snippet)] ]
    ELSE [ fetch |-> TRUE, raised |-> FALSE,
           article |-> [article EXCEPT !.published = NormalizePublished(article.published)] ]

\* mutant: the value of fetch_article_content is stored as it is
MutEndFetchKeepsNone(article, o) ==
    [article EXCEPT !.content = fetch_article_content(article.link, o)]

\* line 132: content if content else "Could not extract content"
StoredContent(content) == IF Falsy(content) THEN <<"Could not extract content">> ELSE content

\* lines 129-133: the page fetch returned
EndFetch(article, o) ==
    [article EXCEPT !.content = StoredContent(fetch_article_content(article.link, o))]

\* the articles fetch_multiple_articles is called with
ArticleInputs ==
    << [ title |-> <<"t1">>, link |-> Url(1), snippet |-> <<"s1">>,
         published |-> Absent, content |-> Absent ],
       [ title |-> <<"t2">>, link |-> Url(2), snippet |-> <<"s2">>,
         published |-> <<"2", "0", "2", "5", "T", "1", "0", ":", "0", "0", ":", "0", "0">>,
         content |-> Absent ],
       [ title |-> <<"t3">>, link |-> Url(3), snippet |-> <<"s3">>,
         published |-> <<"2", "0", "2", "5", "-", "0", "4", "-", "0", "3">>, content |-> Absent ],
       [ title |-> <<"t4">>, link |-> << >>, snippet |-> <<"s4">>,
         published |-> <<"2", "0", "2", "5", "T", "1", "1", ":", "3", "0", ":", "0", "0">>,
         content |-> Absent ],
       [ title |-> <<"t5">>, link |-> <<"https://", "example.com", "/5">>, snippet |-> <<"s5">>,
         published |-> Absent, content |-> Absent ],
       [ title |-> <<"t6">>, link |-> NotAString, snippet |-> Absent,
         published |-> <<"A", "p", "r", " ", "3", "+", "0", "6", ":", "0", "0">>,
         content |-> Absent ] >>

\* a list of PoolArticles articles that all have a page to fetch
PoolList ==
    [ i \in 1..PoolArticles |->
        [ title |-> <<"t", DigitTok[(i % 10) + 1]>>, link |-> Url(i), snippet |-> <<"s">>,
          published |-> Absent, content |-> Absent ] ]

\* the lists passed in: up to MaxArticles successive articles of ArticleInputs,
\* or the list PoolList
InputLists ==
    { [ i \in 1..n |-> ArticleInputs[((i + shift - 2) % Len(ArticleInputs)) + 1] ] :
        n \in 0..MaxArticles, shift \in 1..Len(ArticleInputs) }
    \cup {PoolList}

\* the outcomes of a page fetch: all of them for the short lists, the short
\* text for the fetches of PoolList
OutcomesOf(list) == IF Len(list) > MaxArticles THEN {"short"} ELSE FetchOutcomes

Fetching == { i \in DOMAIN task : task[i] = "fetching" }

\* mutant: the pool starts a worker for every article at once
MutPoolUnbounded == TRUE

\* line 141: ThreadPoolExecutor(max_workers) runs at most max_workers tasks
PoolHasFreeWorker == Cardinality(Fetching) < max_workers

\* lines 83-87 and 141-142: the pool is created and every article is submitted
EnrichStart(list, workers) ==
    /\ e_pc' = "running"
    /\ max_workers' = workers
    /\ input' = list
    /\ arts' = list
    /\ task' = [ i \in DOMAIN list |-> "queued" ]
    /\ ret' = [ i \in DOMAIN list |-> Absent ]
    /\ page_outcome' = [ i \in DOMAIN list |-> "none" ]
    /\ UNCHANGED e_result

\* fetch_multiple_articles is called
EnrichCall ==
    /\ e_pc = "idle"
    /\ \E list \in InputLists, workers \in {SmallPool, DEFAULT_WORKERS} : EnrichStart(list, workers)
    /\ UNCHANGED <<envVars, handlerVars, synthVars, planVars, trimVars, formatVars, entry, searchVars, orchVars>>

\* a free worker takes the next article of the queue and runs
\* fetch_and_add_content on it up to the page fetch
WorkerBegins ==
    /\ e_pc = "running"
    /\ PoolHasFreeWorker
    /\ \E i \in DOMAIN task :
         /\ task[i] = "queued"
         /\ \A j \in 1..(i - 1) : task[j] # "queued"
         /\ LET b == BeginFetch(arts[i])
            IN  /\ arts' = [arts EXCEPT ![i] = b.article]
                /\ task' = [task EXCEPT ![i] = IF b.fetch THEN "fetching"
                                                ELSE IF b.raised THEN "failed" ELSE "done"]
                /\ ret' = [ret EXCEPT ![i] = IF b.fetch \/ b.raised THEN Absent ELSE b.article]
    /\ UNCHANGED <<envVars, handlerVars, synthVars, planVars, trimVars, formatVars, entry, searchVars, orchVars, e_pc, max_workers, input, page_outcome, e_result>>

\* the page fetch of a worker ends, and the worker returns the article
WorkerEnds ==
    /\ e_pc = "running"
    /\ \E i \in Fetching, o \in OutcomesOf(arts) :
         LET a == EndFetch(arts[i], o)
         IN  /\ arts' = [arts EXCEPT ![i] = a]
             /\ ret' = [ret EXCEPT ![i] = a]
             /\ task' = [task EXCEPT ![i] = "done"]
             /\ page_outcome' = [page_outcome EXCEPT ![i] = o]
    /\ UNCHANGED <<envVars, handlerVars, synthVars, planVars, trimVars, formatVars, entry, searchVars, orchVars, e_pc, max_workers, input, e_result>>

\* line 142: list(executor.map(...)), the results in the order of submission
Collected == [ i \in DOMAIN ret |-> ret[i] ]

\* lines 142-144: every worker is through; the results are collected, and an
\* exception of a worker is raised again
EnrichReturn ==
    /\ e_pc = "running"
    /\ \A i \in DOMAIN task : task[i] \in {"done", "failed"}
    /\ IF \E i \in DOMAIN task : task[i] = "failed"
       THEN e_pc' = "raised" /\ UNCHANGED e_result
       ELSE e_pc' = "returned" /\ e_result' = Collected
    /\ UNCHANGED <<envVars, handlerVars, synthVars, planVars, trimVars, formatVars, entry, searchVars, orchVars, max_workers, input, arts, task, ret, page_outcome>>

----------------------------------------------------------------------------
(* fetch_article_content on a page that was fetched: the length of the text *)

\* the text extracted has up to NearLen characters, MAX_CONTENT characters
\* give or take up to NearLen, or MAX_CONTENT + FarLen characters
TextLengths ==
    (0..NearLen)
    \cup { MAX_CONTENT - d : d \in 0..NearLen }
    \cup { MAX_CONTENT + d : d \in 0..NearLen }
    \cup { MAX_CONTENT + FarLen }

\* the texts extracted: the i-th character of the text with pattern p
ExtractedText(len, p) == [ i \in 1..len |-> DigitTok[((i * p) % 10) + 1] ]

\* mutant: a text of exactly the limit is marked as truncated
MutTrimAtLimit(text) ==
    IF Len(text) >= MAX_CONTENT
    THEN SubSeq(text, 1, MAX_CONTENT) \o <<"... [content truncated]">>
    ELSE text

\* lines 72-76
TrimText(text) ==
    IF Len(text) > MAX_CONTENT
    THEN SubSeq(text, 1, MAX_CONTENT) \o <<"... [content truncated]">>
    ELSE text

\* requests.get returned status 200 and the text of the page was extracted
\* (lines 25-70)
PageExtracted ==
    /\ t_pc = "idle"
    /\ \E len \in TextLengths, p \in 1..TextPatterns : t_text' = ExtractedText(len, p)
    /\ t_pc' = "extracted"
    /\ UNCHANGED <<envVars, handlerVars, entry, searchVars, orchVars, enrichVars, synthVars, planVars,
                   formatVars, t_content, t_stored>>

\* lines 72-78 and 129-132: fetch_article_content returns the text, and
\* fetch_and_add_content stores it
ContentStored ==
    /\ t_pc = "extracted"
    /\ t_content' = TrimText(t_text)
    /\ t_stored' = StoredContent(t_content')
    /\ t_pc' = "stored"
    /\ UNCHANGED <<envVars, handlerVars, entry, searchVars, orchVars, enrichVars, synthVars, planVars,
                   formatVars, t_text>>

----------------------------------------------------------------------------
(* DigestGenerator: digest_generator.py *)

\* str.upper() on the tokens of a topic
Upper(t) ==
    [ i \in DOMAIN t |->
        CASE t[i] = "pope"     -> "POPE"
          [] t[i] = "electric" -> "ELECTRIC"
          [] t[i] = "vehicles" -> "VEHICLES"
          [] OTHER             -> t[i] ]

\* dict.get(key, default)
Get(dict, key, default) ==
    IF key \in DOMAIN dict /\ dict[key] # Absent THEN dict[key] ELSE default

\* a value inside an f-string
Str(x) == IF x = None THEN <<"None">> ELSE x

\* ', '.join(strs)
RECURSIVE Join(_, _)
Join(strs, sep) ==
    IF strs = << >> THEN << >>
    ELSE IF Len(strs) = 1 THEN strs[1]
    ELSE strs[1] \o sep \o Join(Tail(strs), sep)

\* seq[:k]
Take(seq, k) == SubSeq(seq, 1, Min(Len(seq), k))

Whitespace == {" ", "\n"}

\* str.strip()
Strip(str) ==
    LET ink == { i \in DOMAIN str : str[i] \notin Whitespace }
    IN  IF ink = {} THEN << >>
        ELSE SubSeq(str, CHOOSE i \in ink : \A j \in ink : i <= j,
                         CHOOSE i \in ink : \A j \in ink : j <= i)

\* mutant: the mock digest always selects five articles
MutMockSelectedFive(alist) == <<1, 2, 3, 4, 5>>

\* line 194: list(range(1, min(6, len(articles) + 1)))
MockSelected(alist) == [ i \in 1..(Min(MOCK_STOP, Len(alist) + 1) - 1) |-> i ]

\* datetime.now().strftime("%B %d, %Y")
CurrentDate == <<"January 01, 2026">>

\* datetime.fromisoformat accepts the text: the timestamps of the model that
\* are in ISO format are those with a "T" and without a space
IsoParsable(pub) == Has(pub, "T") /\ ~Has(pub, " ")

\* lines 223-252: the publication time shown in the mock highlights
MockPublished(pub) ==
    IF Falsy(pub) THEN NowIso \o <<"Z">>
    ELSE IF pub = NotAString THEN pub
    ELSE IF Has(pub, "+") \/ Has(pub, " ")
    THEN IF IsoParsable(pub)
         THEN SelectSeq(pub, LAMBDA ch : ch # "Z") \o <<"Z">>
         ELSE pub
    ELSE IF ~Has(pub, "Z") THEN pub \o <<"Z">>
    ELSE pub

\* lines 211-258: the highlight of the i-th selected article
MockHighlight(article, article_id, i, count) ==
    <<"## ", DigitTok[i + 2], ". ">> \o Str(Get(article, "title", <<"Article ", DigitTok[article_id + 1]>>))
    \o <<"\n", "\n", "**Source:** ">> \o Str(Get(article, "source", <<"Unknown source">>))
    \o <<"\n", "\n", "**Published:** ">> \o MockPublished(Get(article, "published", Absent))
    \o <<"\n", "\n", "**URL:** ">> \o Str(Get(article, "url", Get(article, "link", <<"#">>)))
    \o <<"\n", "\n", "**Summary:** ">> \o Str(Get(article, "snippet", <<"No preview available">>))
    \o <<"\n", "\n">>
    \o (IF i < count - 1 THEN <<"---", "\n", "\n">> ELSE << >>)

\* lines 209-258: the loop over the selected articles, from position i (0-based)
RECURSIVE MockHighlights(_, _, _)
MockHighlights(alist, selected, i) ==
    IF i >= Len(selected) THEN << >>
    ELSE (IF selected[i + 1] <= Len(alist)
          THEN MockHighlight(alist[selected[i + 1]], selected[i + 1], i, Len(selected))
          ELSE << >>)
         \o MockHighlights(alist, selected, i + 1)

\* lines 190-265
_generate_mock_digest(t, alist) ==
    LET selected_articles == MockSelected(alist)
        first == Take(alist, MOCK_SOURCES)
        named == SelectSeq(first, LAMBDA a : ~Falsy(Get(a, "source", Absent)))
        sources == [ i \in DOMAIN named |-> named[i].source ]
    IN  [ selected_articles |-> selected_articles,
          overall_summary |->
              <<"As of ">> \o CurrentDate \o <<", the latest news on ">> \o t
              \o <<" indicates significant developments across several areas. ",
                   "Recent reports from ">> \o Join(sources, <<", ">>)
              \o <<" highlight important trends and updates that are shaping this field. ",
                   "The most relevant information comes from articles covering different aspects of ">>
              \o t \o <<", providing a comprehensive overview of the current situation.">>,
          article_highlights |->
              <<"# Top Articles on ">> \o Upper(t) \o <<"\n", "\n">>
              \o MockHighlights(alist, selected_articles, 0),
          is_mock |-> TRUE ]

\* re.search(open + r'(.*?)' + close, response, re.DOTALL): the leftmost
\* opening marker that has a closing marker after it, up to the nearest one
Section(response, open, close) ==
    LET starts == { i \in DOMAIN response :
                      /\ response[i] = open
                      /\ \E j \in (i + 1)..Len(response) : response[j] = close }
    IN  IF starts = {} THEN [ found |-> FALSE, text |-> << >> ]
        ELSE LET i == CHOOSE s \in starts : \A u \in starts : s <= u
                 j == CHOOSE e \in (i + 1)..Len(response) :
                        /\ response[e] = close
                        /\ \A u \in (i + 1)..(e - 1) : response[u] # close
             IN  [ found |-> TRUE, text |-> SubSeq(response, i + 1, j - 1) ]

\* str.split(sep)
RECURSIVE Split(_, _)
Split(str, sep) ==
    IF ~Has(str, sep) THEN <<str>>
    ELSE LET k == CHOOSE i \in DOMAIN str : str[i] = sep /\ \A j \in 1..(i - 1) : str[j] # sep
         IN  <<SubSeq(str, 1, k - 1)>> \o Split(SubSeq(str, k + 1, Len(str)), sep)

\* str.isdigit()
IsDigit(str) == str # << >> /\ \A i \in DOMAIN str : \E d \in DOMAIN DigitTok : DigitTok[d] = str[i]

\* int(str) of a string of digits
RECURSIVE ToInt(_)
ToInt(str) ==
    IF str = << >> THEN 0
    ELSE ToInt(SubSeq(str, 1, Len(str) - 1)) * 10
         + ((CHOOSE d \in DOMAIN DigitTok : DigitTok[d] = str[Len(str)]) - 1)

\* json.loads(text) for the texts of the model, which hold digits, commas,
\* brackets, whitespace and words: an array of integers is loaded, every other
\* text raises
JsonLoads(text) ==
    IF Len(text) < 2 \/ text[1] # "[" \/ text[Len(text)] # "]"
    THEN [ ok |-> FALSE, value |-> << >> ]
    ELSE LET inner == Strip(SubSeq(text, 2, Len(text) - 1))
             parts == Split(inner, ",")
             elems == [ i \in DOMAIN parts |-> Strip(parts[i]) ]
         IN  IF inner = << >> THEN [ ok |-> TRUE, value |-> << >> ]
             ELSE IF \A i \in DOMAIN elems :
                       IsDigit(elems[i]) /\ (Len(elems[i]) = 1 \/ elems[i][1] # "0")
             THEN [ ok |-> TRUE, value |-> [ i \in DOMAIN elems |-> ToInt(elems[i]) ] ]
             ELSE [ ok |-> FALSE, value |-> << >> ]

\* mutant: the IDs are always read as a bare comma-separated list
MutParseSelectedBareOnly(group) ==
    LET parts == Split(Strip(group), ",")
        elems == [ i \in DOMAIN parts |-> Strip(parts[i]) ]
        digits == SelectSeq(elems, IsDigit)
    IN  [ i \in DOMAIN digits |-> ToInt(digits[i]) ]

\* lines 160-173: the IDs of the selected-articles section
ParseSelected(group) ==
    LET selected_text == Strip(group)
    IN  IF Has(selected_text, "[") /\ Has(selected_text, "]")
        THEN LET a == CHOOSE i \in DOMAIN selected_text :
                        selected_text[i] = "[" /\ \A j \in 1..(i - 1) : selected_text[j] # "["
                 b == CHOOSE i \in DOMAIN selected_text :
                        /\ selected_text[i] = "]"
                        /\ \A j \in (i + 1)..Len(selected_text) : selected_text[j] # "]"
                 loaded == JsonLoads(SubSeq(selected_text, a, b))
             IN  IF loaded.ok THEN loaded.value ELSE << >>
        ELSE LET parts == Split(selected_text, ",")
                 elems == [ i \in DOMAIN parts |-> Strip(parts[i]) ]
                 digits == SelectSeq(elems, IsDigit)
             IN  [ i \in DOMAIN digits |-> ToInt(digits[i]) ]

\* mutant: a reply that misses a section is not parsed at all
MutParseAllOrNothing(response) ==
    LET selected == Section(response, "<selected_articles>", "</selected_articles>")
        summary == Section(response, "<overall_summary>", "</overall_summary>")
        highlights == Section(response, "<article_highlights>", "</article_highlights>")
        all == selected.found /\ summary.found /\ highlights.found
    IN  [ selected_articles |-> IF all THEN ParseSelected(selected.text) ELSE << >>,
          overall_summary |-> IF all THEN Strip(summary.text) ELSE << >>,
          article_highlights |-> IF all THEN Strip(highlights.text) ELSE << >>,
          raw_response |-> response ]

\* lines 147-188
_parse_claude_response(response) ==
    LET selected == Section(response, "<selected_articles>", "</selected_articles>")
        summary == Section(response, "<overall_summary>", "</overall_summary>")
        highlights == Section(response, "<article_highlights>", "</article_highlights>")
    IN  [ selected_articles |-> IF selected.found THEN ParseSelected(selected.text) ELSE << >>,
          overall_summary |-> IF summary.found THEN Strip(summary.text) ELSE << >>,
          article_highlights |-> IF highlights.found THEN Strip(highlights.text) ELSE << >>,
          raw_response |-> response ]

\* the articles generate_digest is called with: article i of the list, whose
\* content is null when i = nullAt
DigestArticle(i, nullAt) ==
    [ title |-> <<"t", DigitTok[i + 1]>>,
      link |-> Url(i),
      source |-> IF i % 3 = 2 THEN None ELSE <<"site", DigitTok[i + 1]>>,
      snippet |-> <<"s", DigitTok[i + 1]>>,
      published |-> ArticleInputs[((i - 1) % Len(ArticleInputs)) + 1].published,
      content |-> IF i = nullAt THEN None
                  ELSE IF i = LongContentAt THEN ExtractedText(CONTENT_LIMIT + 1, 3)
                  ELSE <<"<text>">> ]

DigestLists ==
    { [ i \in 1..n |-> DigestArticle(i, nullAt) ] : n \in 0..MaxDigestArticles, nullAt \in {0, 2} }

\* the decimal digits of n
RECURSIVE Digits(_)
Digits(n) == IF n < 10 THEN <<DigitTok[n + 1]>> ELSE Digits(n \div 10) \o <<DigitTok[(n % 10) + 1]>>

\* the ID lists the model's reply can name
IdLists == { << >>, <<7>>, <<3, 12>>, <<2, 5, 1>> }

\* the content of a selected-articles section: the IDs separated by commas,
\* with brackets around them or not, with words before them or not, and with
\* the word "x" before the ID at position nd (nd = 0: before none)
SelectedBodies ==
    { [ ids |-> ids, nd |-> nd, wrapped |-> w, lead |-> lead ] :
        ids \in IdLists, nd \in {0, 1}, w \in BOOLEAN, lead \in {<< >>, <<"Picked:", " ">>} }
    \ { b \in [ ids : {<< >>}, nd : {1}, wrapped : BOOLEAN, lead : {<< >>, <<"Picked:", " ">>} ] : TRUE }

SelectedText(b) ==
    b.lead
    \o (IF b.wrapped THEN <<"[">> ELSE << >>)
    \o Join([ i \in DOMAIN b.ids |->
                (IF i = b.nd THEN <<"x", " ">> ELSE << >>) \o Digits(b.ids[i]) ], <<",", " ">>)
    \o (IF b.wrapped THEN <<"]">> ELSE << >>)

\* the content of a summary or highlights section
ProseBodies == { << >>, <<"S">>, <<"S", "\n", "T">> }

SectionForms == {"ok", "noend", "nostart"}

\* the sections of a reply: each is absent, well-formed, or misses a marker
ReplySections ==
    { [ selected |-> s, summary |-> u, highlights |-> h, reversed |-> r ] :
        s \in {[ form |-> "absent" ]} \cup [ form : SectionForms, body : SelectedBodies ],
        u \in {[ form |-> "absent", core |-> << >> ]} \cup [ form : {"ok"}, core : ProseBodies ]
              \cup [ form : {"noend"}, core : {<<"S">>} ],
        h \in {[ form |-> "absent", core |-> << >> ]} \cup [ form : {"ok"}, core : ProseBodies ]
              \cup [ form : {"nostart"}, core : {<<"S">>} ],
        r \in BOOLEAN }

\* a section as the reply shows it, with whitespace around its content
Render(open, close, form, text) ==
    CASE form = "absent"  -> << >>
      [] form = "ok"      -> <<open, "\n", " ">> \o text \o <<" ", "\n", close>>
      [] form = "noend"   -> <<open, "\n", " ">> \o text \o <<" ", "\n">>
      [] form = "nostart" -> <<"\n", " ">> \o text \o <<" ", "\n", close>>

\* the text of the reply
ReplyText(sec) ==
    LET s == Render("<selected_articles>", "</selected_articles>", sec.selected.form,
                    IF sec.selected.form = "absent" THEN << >> ELSE SelectedText(sec.selected.body))
        u == Render("<overall_summary>", "</overall_summary>", sec.summary.form, sec.summary.core)
        h == Render("<article_highlights>", "</article_highlights>", sec.highlights.form,
                    sec.highlights.core)
    IN  <<"Here is the digest.", "\n">>
        \o (IF sec.reversed THEN h \o <<"\n">> \o u \o <<"\n">> \o s
                            ELSE s \o <<"\n">> \o u \o <<"\n">> \o h)

\* lines 32-41: building articles_data raises when the content of an article
\* is not a string
BuildRaises(alist) ==
    \E i \in DOMAIN alist : Get(alist[i], "content", <<"No content available">>) \in {None, NotAString}

\* line 202: ', '.join raises when a source is neither a string nor falsy
MockRaises(alist) ==
    \E i \in DOMAIN Take(alist, MOCK_SOURCES) : Get(alist[i], "source", Absent) = NotAString

\* lines 26-27 and 77-80: the call returns the mock digest
ReturnMock(alist, how) ==
    /\ d_pc' = "returned"
    /\ d_model' = how
    /\ d_raised' = MockRaises(alist)
    /\ d_result' = IF MockRaises(alist) THEN << >> ELSE _generate_mock_digest(topic, alist)

\* lines 32-41: articles_data
ArticlesData(alist) ==
    [ i \in DOMAIN alist |->
        [ id |-> i,
          title |-> Get(alist[i], "title", <<"No title">>),
          source |-> Get(alist[i], "source", <<"Unknown source">>),
          url |-> Get(alist[i], "link", << >>),
          snippet |-> Get(alist[i], "snippet", << >>),
          content |-> Take(Get(alist[i], "content", <<"No content available">>), CONTENT_LIMIT) ] ]

\* lines 100-118: the part of the prompt that shows one article
PromptArticle(article) ==
    LET pub_date == IF "published" \in DOMAIN article /\ ~Falsy(article.published)
                    THEN <<"Published: ">> \o article.published
                    ELSE << >>
    IN  <<"\n", "----- Article ">> \o Digits(article.id) \o <<" -----", "\n">>
        \o <<"Title: ">> \o Str(article.title) \o <<"\n">>
        \o <<"Source: ">> \o Str(article.source) \o <<"\n">>
        \o <<"URL: ">> \o Str(article.url) \o <<"\n">>
        \o pub_date \o <<"\n">>
        \o <<"Snippet: ">> \o Str(article.snippet) \o <<"\n", "\n">>
        \o <<"Content:", "\n">> \o article.content \o <<"\n", "\n">>
        \o <<"----------------------", "\n">>

\* lines 100-118: the loop over the articles, from article i
RECURSIVE PromptArticles(_, _)
PromptArticles(data, i) ==
    IF i > Len(data) THEN << >>
    ELSE PromptArticle(data[i]) \o PromptArticles(data, i + 1)

\* lines 82-145
_construct_prompt(t, data) ==
    <<"# Task: Create a Structured News Summary on \"">> \o t \o <<"\"", "\n", "\n",
      "I'm providing you with ">> \o Digits(Len(data)) \o <<" news articles related to ">> \o t
    \o <<".", "\n", "\n", "## Your Tasks:", "\n", "## Articles:", "\n">>
    \o PromptArticles(data, 1)
    \o <<"\n", "## Response Format:", "\n",
         "<selected_articles>", "Example: [3, 7, 2, 9, 1]", "</selected_articles>", "\n",
         "<overall_summary>", "</overall_summary>", "\n",
         "<article_highlights>", "</article_highlights>", "\n">>

\* lines 26-47: generate_digest(topic, alist) up to the call of the model
DigestStart(alist) ==
    /\ d_articles' = alist
    /\ IF ~claude_client THEN ReturnMock(alist, "none") /\ UNCHANGED d_prompt
       ELSE IF BuildRaises(alist) THEN ReturnMock(alist, "skipped") /\ UNCHANGED d_prompt
       ELSE /\ d_pc' = "calling"
            /\ d_prompt' = _construct_prompt(topic, ArticlesData(alist))
            /\ UNCHANGED <<d_model, d_raised, d_result>>
    /\ UNCHANGED d_sections

\* generate_digest is called
DigestCall ==
    /\ d_pc = "idle"
    /\ \E list \in DigestLists : DigestStart(list)
    /\ UNCHANGED <<envVars, handlerVars, entry, searchVars, orchVars, enrichVars, planVars, trimVars,
                   formatVars>>

\* lines 47-66 and 77-80: the model call, or reading its reply, raises
ModelRaises ==
    /\ d_pc = "calling"
    /\ ReturnMock(d_articles, "raised")
    /\ UNCHANGED <<envVars, handlerVars, entry, searchVars, orchVars, enrichVars, planVars, trimVars,
                   formatVars, d_articles, d_sections, d_prompt>>

\* lines 66-75: the reply with the sections sec is parsed and returned
ReplyArrives(sec) ==
    /\ d_sections' = sec
    /\ d_result' = _parse_claude_response(ReplyText(sec))
                   @@ [ raw_claude_response |-> ReplyText(sec) ]
    /\ d_pc' = "returned"
    /\ d_model' = "replied"
    /\ d_raised' = FALSE
    /\ UNCHANGED <<d_articles, d_prompt>>

\* the model replies
ModelReplies ==
    /\ d_pc = "calling"
    /\ \E sec \in ReplySections : ReplyArrives(sec)
    /\ UNCHANGED <<envVars, handlerVars, entry, searchVars, orchVars, enrichVars, planVars, trimVars,
                   formatVars>>

----------------------------------------------------------------------------
(* generate_search_queries, called on its own: main.py 210-283 *)

\* a line of the model's reply: a query numbered "1. ", a query numbered
\* "1) ", a number without a query, or a line of prose
LineKinds == {"dot", "paren", "blank", "prose"}

PlanReplyLines == UNION { [1..n -> LineKinds] : n \in 0..MaxReplyLines }

\* the number of queries on the lines 1..i of the reply
Rank(kinds, i) == Cardinality({ j \in 1..i : kinds[j] \in {"dot", "paren"} })

LineText(kinds, i) ==
    CASE kinds[i] = "dot"   -> <<DigitTok[(i % 10) + 1], ".", " ">> \o ReplyQuery(Rank(kinds, i))
      [] kinds[i] = "paren" -> <<DigitTok[(i % 10) + 1], ")", " ">> \o ReplyQuery(Rank(kinds, i)) \o <<" ">>
      [] kinds[i] = "blank" -> <<DigitTok[(i % 10) + 1], ".", " ", " ">>
      [] kinds[i] = "prose" -> <<"Here", " ", "are", " ", "queries", ".">>

\* response.content[0].text
PlanReplyText(kinds) == Join([ i \in DOMAIN kinds |-> LineText(kinds, i) ], <<"\n">>) \o <<"\n">>

\* the length of the match of r'^\d+[\.\)]\s+' on the line, 0 for no match
NumberPrefix(line) ==
    LET digits == { d \in 1..Len(line) : \A j \in 1..d : IsDigit(<<line[j]>>) }
        d == Cardinality(digits)
        spaces == { w \in 1..(Len(line) - d - 1) :
                      \A j \in 1..w : line[d + 1 + j] \in Whitespace }
    IN  IF d >= 1 /\ Len(line) >= d + 2 /\ line[d + 1] \in {".", ")"} /\ spaces # {}
        THEN d + 1 + Cardinality(spaces)
        ELSE 0

\* lines 260-270: the queries parsed from the reply
ParseQueries(result) ==
    LET lines == Split(Strip(result), "\n")
        numbered == SelectSeq(lines, LAMBDA line : NumberPrefix(line) > 0)
        stripped == [ i \in DOMAIN numbered |->
                        Strip(SubSeq(numbered[i], NumberPrefix(numbered[i]) + 1, Len(numbered[i]))) ]
    IN  SelectSeq(stripped, LAMBDA q : q # << >>)

\* lines 216-218: no model client
PlanNoClient ==
    /\ p_pc = "idle"
    /\ ~claude_client
    /\ p_pc' = "planned"
    /\ p_outcome' = [ kind |-> "noclient", reply |-> << >>, parsed |-> << >> ]
    /\ p_queries' = generate_search_queries(topic, "none")
    /\ UNCHANGED <<envVars, handlerVars, entry, searchVars, orchVars, enrichVars, synthVars, trimVars, formatVars>>

\* lines 280-283: the model call raises
PlanRaises ==
    /\ p_pc = "idle"
    /\ claude_client
    /\ p_pc' = "planned"
    /\ p_outcome' = [ kind |-> "raise", reply |-> << >>, parsed |-> << >> ]
    /\ p_queries' = generate_search_queries(topic, "raise")
    /\ UNCHANGED <<envVars, handlerVars, entry, searchVars, orchVars, enrichVars, synthVars, trimVars, formatVars>>

\* lines 245-278: the model replies
PlanReplies ==
    /\ p_pc = "idle"
    /\ claude_client
    /\ \E kinds \in PlanReplyLines :
         LET parsed == ParseQueries(PlanReplyText(kinds))
         IN  /\ p_outcome' = [ kind |-> "reply", reply |-> kinds, parsed |-> parsed ]
             /\ p_queries' = generate_search_queries(topic, <<"reply", Len(parsed)>>)
    /\ p_pc' = "planned"
    /\ UNCHANGED <<envVars, handlerVars, entry, searchVars, orchVars, enrichVars, synthVars, trimVars, formatVars>>

----------------------------------------------------------------------------
(* The formatter: format_simple_digest and create_digest, main.py 398-488 *)

\* lines 409-416: the entry of article i; when the snippet is not a string,
\* snippet[:100] raises after the title line was added, and the handler of
\* line 417 goes on to the next article
SimpleItem(article, i) ==
    LET title == Get(article, "title", <<"No title">>)
        snippet == Get(article, "snippet", <<"No preview available">>)
        link == Get(article, "link", <<"#">>)
    IN  <<DigitTok[i + 1], ". ">> \o Str(title) \o <<"\n">>
        \o (IF snippet \in {None, NotAString} THEN << >>
            ELSE <<"   ">> \o Take(snippet, SNIPPET_LIMIT) \o <<"...", "\n">>
                 \o <<"   Read more: ">> \o Str(link) \o <<"\n", "\n">>)

\* lines 407-419: the loop over the first articles, from article i
RECURSIVE SimpleItems(_, _)
SimpleItems(alist, i) ==
    IF i > Len(alist) THEN << >>
    ELSE SimpleItem(alist[i], i) \o SimpleItems(alist, i + 1)

\* lines 398-421
format_simple_digest(t, alist) ==
    <<"<newspaper>", " DAILY DIGEST: ">> \o Upper(t) \o <<" ", "<newspaper>", "\n", "\n">>
    \o (IF alist = << >>
        THEN <<"No recent news found for this topic. Try again later or try a different topic.">>
        ELSE SimpleItems(Take(alist, SMS_ARTICLES), 1))
    \o <<"\n", "Powered by M.A.D">>

\* lines 467-481: the digest made of the DigestResult
format_ai_digest(t, alist, ai_digest_data) ==
    IF "overall_summary" \in DOMAIN ai_digest_data \/ "article_highlights" \in DOMAIN ai_digest_data
    THEN <<"<newspaper>", " ">> \o Upper(t) \o <<" NEWS SUMMARY ", "<newspaper>", "\n", "\n">>
         \o (IF "overall_summary" \in DOMAIN ai_digest_data /\ ai_digest_data.overall_summary # << >>
             THEN <<"## Latest Developments", "\n", "\n">> \o ai_digest_data.overall_summary
                  \o <<"\n", "\n">>
             ELSE << >>)
         \o (IF "article_highlights" \in DOMAIN ai_digest_data /\ ai_digest_data.article_highlights # << >>
             THEN <<"## Top Articles", "\n", "\n">> \o ai_digest_data.article_highlights
                  \o <<"\n", "\n">>
             ELSE << >>)
         \o <<"Powered by M.A.D">>
    ELSE format_simple_digest(t, alist)

\* the replies of the model the formatter is checked with: no ID list or the
\* list [2, 5, 1], and every summary and highlights section
FormatReplies ==
    { sec \in ReplySections :
        /\ ~sec.reversed
        /\ \/ sec.selected.form = "absent"
           \/ /\ sec.selected.form = "ok"
              /\ sec.selected.body = [ ids |-> <<2, 5, 1>>, nd |-> 0, wrapped |-> TRUE, lead |-> << >> ] }

\* lines 464 and 26-80: the DigestResults generate_digest can return
DigestResults(t, alist) ==
    IF ~claude_client \/ BuildRaises(alist) THEN { _generate_mock_digest(t, alist) }
    ELSE { _generate_mock_digest(t, alist) }
         \cup { _parse_claude_response(ReplyText(sec)) @@ [ raw_claude_response |-> ReplyText(sec) ] :
                  sec \in FormatReplies }

\* line 488: the simple mode
FormatSimple ==
    /\ f_pc = "idle"
    /\ \E list \in DigestLists :
         /\ f_articles' = list
         /\ f_digest' = format_simple_digest(topic, list)
    /\ f_mode' = "simple"
    /\ f_data' = << >>
    /\ f_pc' = "formatted"
    /\ UNCHANGED <<envVars, handlerVars, entry, searchVars, orchVars, enrichVars, synthVars, planVars, trimVars>>

\* lines 464-478: the AI mode
FormatAi ==
    /\ f_pc = "idle"
    /\ \E list \in DigestLists :
         \E data \in DigestResults(topic, list) :
            /\ f_articles' = list
            /\ f_data' = data
            /\ f_digest' = format_ai_digest(topic, list, data)
    /\ f_mode' = "ai"
    /\ f_pc' = "formatted"
    /\ UNCHANGED <<envVars, handlerVars, entry, searchVars, orchVars, enrichVars, synthVars, planVars, trimVars>>

----------------------------------------------------------------------------
(* The request handler: create_digest, main.py 423-516 *)

\* the phone_number of a request: empty, or a number
Phones == { << >>, <<"+15550100">> }

\* lines 385-395
get_empty_article_response ==
    << [ title |-> <<"No articles found">>,
         link |-> << >>,
         snippet |-> <<"Could not find any articles. Please try a different search or try again later.">>,
         source |-> <<"System">>,
         published |-> NowIso ] >>

\* a dict of the list, with the key "content" it may not have yet
WithContentSlot(alist) ==
    [ i \in DOMAIN alist |->
        IF "content" \in DOMAIN alist[i] THEN alist[i] ELSE alist[i] @@ [ content |-> Absent ] ]

\* the search of lines 435-440 has returned
SearchReturned ==
    \/ entry = "orchestrate" /\ o_pc = "done"
    \/ entry = "search" /\ s_pc = "returned"

\* lines 426-431: a request without topic or without phone number
RequestRejected ==
    /\ h_pc = "idle"
    /\ \E phone \in Phones, ai \in BOOLEAN :
         /\ topic = << >> \/ phone = << >>
         /\ h_phone' = phone
         /\ h_ai' = ai
    /\ h_status' = 400
    /\ h_pc' = "responded"
    /\ UNCHANGED <<h_articles, h_digest>>
    /\ UNCHANGED <<envVars, entry, searchVars, orchVars, enrichVars, synthVars, planVars, trimVars, formatVars>>

\* lines 426-436: a request with topic and phone number, a model client is configured
RequestOrchestrated ==
    /\ h_pc = "idle" /\ entry = "idle"
    /\ topic # << >>
    /\ claude_client
    /\ \E phone \in Phones \ {<< >>}, ai \in BOOLEAN :
         /\ h_phone' = phone
         /\ h_ai' = ai
    /\ h_pc' = "searching"
    /\ entry' = "orchestrate"
    /\ PlanAndSearch
    /\ UNCHANGED <<h_status, h_articles, h_digest>>
    /\ UNCHANGED <<envVars, enrichVars, synthVars, planVars, trimVars, formatVars>>

\* lines 426-440: a request with topic and phone number, no model client
RequestSearchedDirectly ==
    /\ h_pc = "idle" /\ entry = "idle"
    /\ topic # << >>
    /\ ~claude_client
    /\ \E phone \in Phones \ {<< >>}, ai \in BOOLEAN :
         /\ h_phone' = phone
         /\ h_ai' = ai
    /\ h_pc' = "searching"
    /\ entry' = "search"
    /\ SearchCall(topic, HANDLER_RESULTS)
    /\ UNCHANGED <<h_status, h_articles, h_digest>>
    /\ UNCHANGED <<envVars, orchVars, enrichVars, synthVars, planVars, trimVars, formatVars>>

\* lines 436-462 and 486-508: the search returned; the articles, or the empty
\* article response, go to fetch_multiple_articles, or into the simple digest
SearchDone ==
    /\ h_pc = "searching"
    /\ SearchReturned
    /\ LET found == IF entry = "orchestrate" THEN o_result
                    ELSE [ i \in DOMAIN s_result |-> to_dict(s_result[i]) ]
           list == IF found = << >> THEN get_empty_article_response ELSE found
       IN  /\ h_articles' = list
           /\ IF h_ai
              THEN /\ h_pc' = "fetching"
                   /\ EnrichStart(WithContentSlot(list), DEFAULT_WORKERS)
                   /\ UNCHANGED <<h_status, h_digest>>
              ELSE /\ h_pc' = "responded"
                   /\ h_status' = 200
                   /\ h_digest' = format_simple_digest(topic, list)
                   /\ UNCHANGED enrichVars
    /\ UNCHANGED <<h_phone, h_ai>>
    /\ UNCHANGED <<envVars, entry, searchVars, orchVars, synthVars, planVars, trimVars, formatVars>>

\* mutant: generate_digest is called while fetches are in progress
MutFetchDoneEarly ==
    /\ h_pc = "fetching"
    /\ e_pc = "running"
    /\ h_articles' = arts
    /\ h_pc' = "synthesizing"
    /\ DigestStart(arts)
    /\ UNCHANGED <<h_status, h_digest>>
    /\ UNCHANGED <<h_phone, h_ai>>
    /\ UNCHANGED <<envVars, entry, searchVars, orchVars, enrichVars, planVars, trimVars, formatVars>>

\* lines 461-464 and 482-485: fetch_multiple_articles returned the articles,
\* which are the dicts of the handler's list, and generate_digest is called;
\* an exception of a worker leads to the simple digest
FetchDone ==
    /\ h_pc = "fetching"
    /\ e_pc \in {"returned", "raised"}
    /\ IF e_pc = "returned"
       THEN /\ h_articles' = e_result
            /\ h_pc' = "synthesizing"
            /\ DigestStart(e_result)
            /\ UNCHANGED <<h_status, h_digest>>
       ELSE /\ h_articles' = arts
            /\ h_pc' = "responded"
            /\ h_status' = 200
            /\ h_digest' = format_simple_digest(topic, arts)
            /\ UNCHANGED synthVars
    /\ UNCHANGED <<h_phone, h_ai>>
    /\ UNCHANGED <<envVars, entry, searchVars, orchVars, enrichVars, planVars, trimVars, formatVars>>

\* lines 66-75: the model replies to the prompt of the request
RequestModelReplies ==
    /\ h_pc = "synthesizing"
    /\ d_pc = "calling"
    /\ \E sec \in FormatReplies : ReplyArrives(sec)
    /\ UNCHANGED <<envVars, handlerVars, entry, searchVars, orchVars, enrichVars, planVars, trimVars,
                   formatVars>>

\* lines 467-485 and 491-508: generate_digest returned, or raised; the digest
\* is formatted and the response is returned
DigestDone ==
    /\ h_pc = "synthesizing"
    /\ d_pc = "returned"
    /\ h_digest' = IF d_raised \/ d_result = << >>
                   THEN format_simple_digest(topic, h_articles)
                   ELSE format_ai_digest(topic, h_articles, d_result)
    /\ h_status' = 200
    /\ h_pc' = "responded"
    /\ UNCHANGED <<h_phone, h_ai, h_articles>>
    /\ UNCHANGED <<envVars, entry, searchVars, orchVars, enrichVars, synthVars, planVars, trimVars, formatVars>>

----------------------------------------------------------------------------
(* Properties of search_with_optimized_queries *)

Links(seq) == { seq[i].link : i \in DOMAIN seq }

NoDupLinks(seq) == \A i, j \in DOMAIN seq : seq[i].link = seq[j].link => i = j

\* the index of the first article of seq with the link l
FirstAt(seq, l) == CHOOSE i \in DOMAIN seq : seq[i].link = l /\ \A j \in 1..(i - 1) : seq[j].link # l

IsPlaceholder(a) == a.source = <<"System Message">>

\* C1: no exception of the search client reaches the orchestrator, and the
\* sequence the orchestrator returns is non-empty and every article of it has
\* a non-empty link and a non-empty title
C1_NonEmptyResult ==
    /\ ~s_raised
    /\ o_pc = "done" =>
         /\ o_result # << >>
         /\ \A i \in DOMAIN o_result : o_result[i].link # << >> /\ o_result[i].title # << >>

\* C1 witness: the model call failed, every search of every tier came back
\* empty although requests were made, and the orchestrator has returned
C1_Witness ==
    /\ o_pc = "done" /\ GOOGLE_API_KEY /\ claude_client
    /\ queries = DefaultQueries(topic)
    /\ calls.issued = <<MAX_QUERIES, 1, 1>>
    /\ calls.yielded = <<FALSE, FALSE, FALSE>>

\* C2: every merge of a query's results keeps the articles collected so far
\* in place, appends exactly the links not seen before, each once, in the
\* order of their first occurrence in the results, and leaves no link twice
C2_DedupFirstSeenOrder ==
    [][ (o_pc \in {"tier1", "tier2", "tier3"} /\ s_pc = "returned"
            /\ Links(all_articles) \cup Links(s_result) # {}) =>
        LET old == all_articles
            new == all_articles'
        IN  /\ Len(new) >= Len(old)
            /\ SubSeq(new, 1, Len(old)) = old
            /\ NoDupLinks(new)
            /\ Links(new) = Links(old) \cup Links(s_result)
            /\ \A i, j \in (Len(old) + 1)..Len(new) :
                 i < j => FirstAt(s_result, new[i].link) < FirstAt(s_result, new[j].link)
            /\ o_pc' = "done" => o_result' = new ]_vars

\* C2 witness: the search client returned a link a second time, and the
\* orchestrator has returned several articles
C2_Witness ==
    /\ o_pc = "done" /\ calls.repeated
    /\ Len(o_result) > SHORT_PAGE
    /\ NoDupLinks(o_result)

\* C3: tier 2 is called only after all planner queries ran and none returned
\* an article, tier 3 only after tier 2 ran and returned none, each of them
\* once; a fallback tier is not skipped while nothing was found; and the
\* result is exactly one placeholder iff no tier returned an article
C3_TierOrder ==
    /\ calls.issued[2] + (IF o_pc = "tier2" THEN 1 ELSE 0) > 0 =>
         /\ calls.issued[1] = Len(queries)
         /\ ~calls.yielded[1]
    /\ calls.issued[3] + (IF o_pc = "tier3" THEN 1 ELSE 0) > 0 =>
         /\ calls.issued[2] = 1
         /\ ~calls.yielded[1] /\ ~calls.yielded[2]
    /\ calls.issued[2] <= 1 /\ calls.issued[3] <= 1
    /\ o_pc = "done" =>
         /\ calls.issued[1] = Len(queries)
         /\ ~calls.yielded[1] => calls.issued[2] = 1
         /\ (~calls.yielded[1] /\ ~calls.yielded[2]) => calls.issued[3] = 1
         /\ (\E i \in DOMAIN o_result : IsPlaceholder(o_result[i]))
              <=> (~calls.yielded[1] /\ ~calls.yielded[2] /\ ~calls.yielded[3])
         /\ (\E i \in DOMAIN o_result : IsPlaceholder(o_result[i])) => Len(o_result) = 1

\* C3 witness: the planner's queries found nothing, the raw topic found an
\* article, and the orchestrator returned without a third tier
C3_Witness ==
    /\ o_pc = "done"
    /\ calls.issued = <<MAX_QUERIES, 1, 0>>
    /\ calls.yielded = <<FALSE, TRUE, FALSE>>

----------------------------------------------------------------------------
(* Properties of ArticleParser.fetch_multiple_articles *)

\* C4: the call does not end in an exception, and it returns as many articles
\* as it was given, the i-th being the i-th article given, with a content
\* that is neither missing nor None
C4_SameLengthOrderContent ==
    /\ e_pc # "raised"
    /\ e_pc = "returned" =>
         /\ Len(e_result) = Len(input)
         /\ \A i \in DOMAIN input :
              /\ e_result[i].title = input[i].title
              /\ e_result[i].link = input[i].link
              /\ e_result[i].snippet = input[i].snippet
              /\ e_result[i].content \notin {Absent, None}

\* C4 witness: a call with MaxArticles articles returned, of which one page
\* answered with an error status and one page fetch raised
C4_Witness ==
    /\ e_pc = "returned"
    /\ Len(e_result) = MaxArticles
    /\ \E i, j \in DOMAIN page_outcome :
         page_outcome[i] = "status" /\ page_outcome[j] = "raise"

\* the strings stored for an article whose fetch failed
ErrorContents(article) ==
    { <<"Error processing article: ", "<exception>">>,
      <<"Error fetching content: ", "<exception>">>,
      <<"Could not extract content">>,
      <<"Could not extract content from ">> \o article.link }

\* C5: whatever the other workers are doing or have done, an article whose
\* turn has not come is untouched, an article whose fetch failed or raised
\* holds an error placeholder, an article whose page was read holds that
\* page's text, and the call returns every article and never ends in an
\* exception
C5_FetchesIsolated ==
    /\ e_pc # "raised"
    /\ \A i \in DOMAIN task :
         /\ task[i] # "failed"
         /\ task[i] = "queued" => arts[i] = input[i]
         /\ task[i] = "fetching" => arts[i].content = input[i].content
         /\ (task[i] = "done" /\ page_outcome[i] \in {"raise", "status", "nobody", "empty"}) =>
              arts[i].content \in ErrorContents(input[i])
         /\ (task[i] = "done" /\ input[i].link = NotAString) =>
              arts[i].content \in ErrorContents(input[i])
         /\ (task[i] = "done" /\ page_outcome[i] = "short") =>
              arts[i].content = <<"<text>">>
         /\ (task[i] = "done" /\ page_outcome[i] = "long") =>
              arts[i].content = <<"<text[:10000]>", "... [content truncated]">>
    /\ e_pc = "returned" =>
         /\ DOMAIN e_result = DOMAIN input
         /\ \A i \in DOMAIN input : e_result[i] = arts[i]

\* C5 witness: three pages were being fetched by the default pool; the first
\* fetch raised, the second failed with a status, the third was read, and
\* the call returned
C5_Witness ==
    /\ e_pc = "returned" /\ max_workers = DEFAULT_WORKERS
    /\ Len(page_outcome) = 3
    /\ page_outcome[1] = "raise" /\ page_outcome[2] = "status" /\ page_outcome[3] = "short"
    /\ e_result[3].content = <<"<text>">>

----------------------------------------------------------------------------
(* Properties of search_google_news *)

Attempts(start) == Cardinality({ i \in DOMAIN requests : requests[i].start = start })

Retried(r) == r.status \in {"5xx", "timeout"} /\ r.slept

AllOk == \A i \in DOMAIN requests : requests[i].status = "200"

\* C6: no page is requested more than 3 times, whatever mix of server errors
\* and timeouts it meets; three 500 answers in a row to a query make exactly
\* 3 requests and an empty result
C6_RetryBudget ==
    /\ \A i \in DOMAIN requests : Attempts(requests[i].start) <= 3
    /\ (Len(requests) >= 3 /\ \A i \in 1..3 : requests[i].status = "5xx") =>
         /\ Len(requests) = 3
         /\ s_pc = "returned"
         /\ s_result = << >>

\* C6 witness: three server errors in a row, and the call has returned
C6_Witness ==
    /\ s_pc = "returned"
    /\ Len(requests) = 3
    /\ \A i \in 1..3 : requests[i].status = "5xx"

\* C7: the returned sequence is never longer than the desired count
C7_AtMostDesired ==
    s_pc = "returned" => Len(s_result) <= num_results

\* C8 (both forms): pages hold at most 10 items, the first start offset is 1,
\* and a request repeats the offset of a failed request or advances the
\* offset of a successful one by 10
C8_Offsets ==
    \A i \in DOMAIN requests :
        /\ requests[i].num <= 10
        /\ requests[i].start = IF i = 1 THEN 1
                               ELSE IF requests[i - 1].status = "200"
                                    THEN requests[i - 1].start + 10
                                    ELSE requests[i - 1].start

\* C8 as stated: when every request succeeded, the call returns only because
\* the desired count was collected or because the last page was short
C8_StopsOnlyWhenFullOrShort ==
    /\ C8_Offsets
    /\ (s_pc = "returned" /\ requests # << >> /\ AllOk) =>
         \/ Len(s_result) >= num_results
         \/ requests[Len(requests)].raw < 10

\* C8 amended: ... or because ceil(desired_count / 10) pages were requested
C8_StopsWhenFullShortOrLastPage ==
    /\ C8_Offsets
    /\ (s_pc = "returned" /\ requests # << >> /\ AllOk) =>
         \/ Len(s_result) >= num_results
         \/ requests[Len(requests)].raw < 10
         \/ requests[Len(requests)].start + 10 > num_results

\* C8 witness: items of the full first page were dropped, the second page was
\* requested and was full, and the call returned fewer than desired
C8_Witness ==
    /\ s_pc = "returned" /\ AllOk
    /\ Len(requests) = 2
    /\ requests[1].raw = 10 /\ requests[2].raw = 10 /\ requests[2].start = 11
    /\ Len(s_result) < num_results

\* C9: a page that exhausted its retries makes the call return the empty
\* sequence, without raising
C9_ExhaustedIsEmpty ==
    (s_pc = "returned" /\ requests # << >>
        /\ requests[Len(requests)].status \in {"5xx", "timeout"}) =>
        /\ ~s_raised
        /\ s_result = << >>

\* C10 as stated: a page that received a client error was requested once, no
\* backoff wait was made for it, it is the last request, and the call returned
C10_ClientErrorOnce ==
    \A i \in DOMAIN requests : requests[i].status = "4xx" =>
        /\ Attempts(requests[i].start) = 1
        /\ ~requests[i].slept
        /\ i = Len(requests)
        /\ s_pc = "returned" /\ ~s_raised

\* C10 amended: the request that received the client error is the last one of
\* the call and no wait follows it; the attempts of the page before it were
\* retried server errors or timeouts; the call returned without raising
C10_ClientErrorNotRetried ==
    \A i \in DOMAIN requests : requests[i].status = "4xx" =>
        /\ \A j \in 1..(i - 1) : requests[j].start = requests[i].start => Retried(requests[j])
        /\ ~requests[i].slept
        /\ i = Len(requests)
        /\ s_pc = "returned" /\ ~s_raised

\* C10 witness: the second page received a client error on its first attempt
C10_Witness ==
    /\ s_pc = "returned"
    /\ Len(requests) = 2
    /\ requests[1].status = "200" /\ requests[2].status = "4xx"

----------------------------------------------------------------------------
(* Properties of DigestGenerator.generate_digest *)

\* the reply that holds one section of the reply received, and nothing else
OnlySection(name) ==
    [ selected |-> IF name = "selected" THEN d_sections.selected ELSE [ form |-> "absent" ],
      summary |-> IF name = "summary" THEN d_sections.summary
                  ELSE [ form |-> "absent", core |-> << >> ],
      highlights |-> IF name = "highlights" THEN d_sections.highlights
                     ELSE [ form |-> "absent", core |-> << >> ],
      reversed |-> FALSE ]

\* C11: when no model client is configured, or the model call raises,
\* generate_digest does not raise, and it returns the mock digest: is_mock is
\* true and selected_articles is 1, 2, ..., min(5, N) for the N articles given.
C11_NoModelGivesMock ==
    (d_pc = "returned" /\ d_model \in {"none", "raised"}) =>
        /\ ~d_raised
        /\ "is_mock" \in DOMAIN d_result
        /\ d_result.is_mock = TRUE
        /\ d_result.selected_articles = [ i \in 1..Min(5, Len(d_articles)) |-> i ]

\* the model call raised on a list of more than five articles
C11_Witness ==
    /\ d_pc = "returned"
    /\ d_model = "raised"
    /\ Len(d_articles) > 5
    /\ d_result.selected_articles = <<1, 2, 3, 4, 5>>

\* C12: _parse_claude_response returns for every reply; a section whose
\* markers are not both there has its default (no IDs, empty text); and the
\* value of each section is the value parsed from a reply that holds that
\* section alone, whatever the other sections are.
C12_SectionsIndependent ==
    (d_pc = "returned" /\ d_model = "replied") =>
        /\ ~d_raised
        /\ d_sections.selected.form # "ok" => d_result.selected_articles = << >>
        /\ d_result.overall_summary =
             IF d_sections.summary.form = "ok" THEN d_sections.summary.core ELSE << >>
        /\ d_result.article_highlights =
             IF d_sections.highlights.form = "ok" THEN d_sections.highlights.core ELSE << >>
        /\ d_result.selected_articles =
             _parse_claude_response(ReplyText(OnlySection("selected"))).selected_articles
        /\ d_result.overall_summary =
             _parse_claude_response(ReplyText(OnlySection("summary"))).overall_summary
        /\ d_result.article_highlights =
             _parse_claude_response(ReplyText(OnlySection("highlights"))).article_highlights

\* a reply with a bracketed ID list, an unterminated summary and no highlights
C12_Witness ==
    /\ d_pc = "returned"
    /\ d_model = "replied"
    /\ d_sections.selected.form = "ok"
    /\ d_sections.summary.form = "noend"
    /\ d_sections.highlights.form = "absent"
    /\ d_result.selected_articles = <<2, 5, 1>>
    /\ d_result.overall_summary = << >>

\* the content of the selected-articles section is a bracketed array of IDs
IsBracketed(b) == b.wrapped /\ b.nd = 0
\* the content is a bare comma-separated list of IDs
IsBare(b) == ~b.wrapped /\ b.nd = 0 /\ b.lead = << >>

\* C13 as stated: a well-formed selected-articles section yields the IDs it
\* lists, in the order written, when they are written as a bracketed array or
\* as a bare comma-separated list, and the empty list when its content is in
\* neither form.
C13_IdsOrEmpty ==
    (d_pc = "returned" /\ d_model = "replied" /\ d_sections.selected.form = "ok") =>
        LET b == d_sections.selected.body
        IN  /\ ~d_raised
            /\ d_result.selected_articles =
                 IF IsBracketed(b) \/ IsBare(b) THEN b.ids ELSE << >>

\* C13: a well-formed selected-articles section yields the IDs it lists, in
\* the order written, when they are written as a bracketed array or as a bare
\* comma-separated list; content without brackets that is not such a list
\* yields the IDs of its all-digit pieces, in order (here: all but the first);
\* bracketed content that is not an array yields the empty list; nothing raises.
C13_IdsInOrderDigitPiecesKept ==
    (d_pc = "returned" /\ d_model = "replied" /\ d_sections.selected.form = "ok") =>
        LET b == d_sections.selected.body
        IN  /\ ~d_raised
            /\ d_result.selected_articles =
                 IF IsBracketed(b) \/ IsBare(b) THEN b.ids
                 ELSE IF b.wrapped \/ b.ids = << >> THEN << >>
                 ELSE Tail(b.ids)

\* the content "x 2, 5, 1" gave the IDs 5, 1
C13_Witness ==
    /\ d_pc = "returned"
    /\ d_model = "replied"
    /\ d_sections.selected.form = "ok"
    /\ ~d_sections.selected.body.wrapped
    /\ d_sections.selected.body.nd = 1
    /\ d_sections.selected.body.ids = <<2, 5, 1>>
    /\ d_result.selected_articles = <<5, 1>>

\* the piece is part of the text
Embeds(text, piece) ==
    \E k \in 0..(Len(text) - Len(piece)) : SubSeq(text, k + 1, k + Len(piece)) = piece

\* C23: the prompt sent to the model shows, for each article given, its
\* 1-based ID, its title, source, URL and snippet, its content cut to 5,000
\* characters, and its publication date when it has one.
C23_PromptEmbedsArticles ==
    d_pc \in {"calling", "returned"} /\ d_prompt # << >> =>
        \A i \in DOMAIN d_articles :
            LET a == d_articles[i]
            IN  /\ Embeds(d_prompt, <<"----- Article ">> \o Digits(i) \o <<" -----">>)
                /\ Embeds(d_prompt, <<"Title: ">> \o a.title \o <<"\n">>)
                /\ Embeds(d_prompt, <<"Source: ">> \o (IF a.source = None THEN <<"None">> ELSE a.source)
                                    \o <<"\n">>)
                /\ Embeds(d_prompt, <<"URL: ">> \o a.link \o <<"\n">>)
                /\ Embeds(d_prompt, <<"Snippet: ">> \o a.snippet \o <<"\n">>)
                /\ Embeds(d_prompt, <<"Content:", "\n">>
                                    \o SubSeq(a.content, 1, Min(Len(a.content), 5000)) \o <<"\n">>)
                /\ a.published \notin {Absent, None, << >>} =>
                       Embeds(d_prompt, <<"Published: ">> \o a.published \o <<"\n">>)

\* C14: every element of selected_articles of a digest that was returned is
\* an integer from 1 to N, the number of articles given.
C14_SelectedInRange ==
    (d_pc = "returned" /\ ~d_raised) =>
        \A i \in DOMAIN d_result.selected_articles :
            d_result.selected_articles[i] \in 1..Len(d_articles)

\* C22: when the provider holds 12 items with pairwise distinct links, which
\* it serves in pages of 10 and 2, the orchestrator returns exactly those 12
\* articles, each once.
C22_TwelveHeldTwelveReturned ==
    (o_pc = "done" /\ held = 12 /\ GOOGLE_API_KEY /\ topic # << >>) =>
        /\ Len(o_result) = 12
        /\ NoDupLinks(o_result)
        /\ Links(o_result) = { Url(k) : k \in 1..12 }

----------------------------------------------------------------------------
(* Properties of the query planner *)

\* C15: when no model client is configured, when the model call raises, and
\* when the reply has no parseable numbered line, generate_search_queries
\* returns the same five queries: the topic followed by "latest news",
\* "analysis", "developments", "trends" and "impact".
C15_SameFiveOnFailure ==
    (/\ p_pc = "planned"
     /\ \/ p_outcome.kind \in {"noclient", "raise"}
        \/ p_outcome.kind = "reply" /\ p_outcome.parsed = << >>) =>
        p_queries = << topic \o <<" ", "latest news">>,
                       topic \o <<" ", "analysis">>,
                       topic \o <<" ", "developments">>,
                       topic \o <<" ", "trends">>,
                       topic \o <<" ", "impact">> >>

\* C16: for a topic that contains a special keyword, the only query planned
\* and sent for the first tier is the topic itself, unchanged.
C16_KeywordTopicSentRaw ==
    (o_pc = "tier1" /\ \E i \in DOMAIN topic : topic[i] \in specific_topics) =>
        /\ queries = <<topic>>
        /\ query = topic
        /\ search_query = topic

\* C24: while fetch_multiple_articles runs with the default pool size, at most
\* 5 page fetches are in progress, however many articles were given and
\* whichever fetches have ended.
C24_AtMostFiveFetching ==
    (e_pc = "running" /\ max_workers = DEFAULT_WORKERS) => Cardinality(Fetching) <= 5

\* five fetches are in progress and a sixth article waits in the queue
C24_Witness ==
    /\ e_pc = "running"
    /\ max_workers = DEFAULT_WORKERS
    /\ Cardinality(Fetching) = 5
    /\ \E i \in DOMAIN task : task[i] = "queued"

----------------------------------------------------------------------------
(* Properties of the content fetcher: skipped fetches and publication times *)

\* the article's link is empty, missing, or on the placeholder domain
NoRealLink(article) ==
    \/ Falsy(article.link)
    \/ article.link # NotAString /\ Has(article.link, "example.com")

\* the timestamp ends in a timezone marker: "Z" or a UTC offset
HasTimezone(pub) ==
    /\ pub \notin {Absent, None, << >>}
    /\ \/ pub[Len(pub)] = "Z"
       \/ Len(pub) >= 6 /\ pub[Len(pub) - 5] \in {"+", "-"} /\ pub[Len(pub) - 2] = ":"

\* C17: an article whose link is empty, missing, or on the placeholder domain
\* is not fetched over the network, and its content is made of its title and
\* its snippet.
C17_NoLinkContentFromTitleSnippet ==
    \A i \in DOMAIN task :
        (task[i] = "done" /\ NoRealLink(input[i])) =>
            /\ page_outcome[i] = "none"
            /\ arts[i].content = input[i].title \o <<". ">> \o input[i].snippet

\* C18: in the result of the enrichment every article has a publication time
\* with a timezone marker: the current time with the UTC marker when it had
\* none, its own time with the marker appended when that lacked a timezone.
C18_PublishedHasTimezone ==
    e_pc = "returned" =>
        \A i \in DOMAIN e_result :
            /\ HasTimezone(e_result[i].published)
            /\ Falsy(input[i].published) => e_result[i].published = NowIso \o <<"Z">>
            /\ (~Falsy(input[i].published) /\ ~HasTimezone(input[i].published)) =>
                   e_result[i].published = input[i].published \o <<"Z">>

\* C19 as stated: a text of more than 10,000 characters is stored as its first
\* 10,000 characters followed by the truncation marker, and a text of at most
\* 10,000 characters is stored as it is.
C19_TruncatedOrUnchanged ==
    t_pc = "stored" =>
        t_stored = IF Len(t_text) > 10000
                   THEN [ i \in 1..10001 |->
                            IF i <= 10000 THEN t_text[i] ELSE "... [content truncated]" ]
                   ELSE t_text

\* C19: a text of more than 10,000 characters is stored as its first 10,000
\* characters followed by the truncation marker; a text of 1 to 10,000
\* characters is stored as it is; an empty text is stored as the placeholder
\* "Could not extract content".
C19_TruncatedUnchangedOrPlaceholder ==
    t_pc = "stored" =>
        t_stored = IF Len(t_text) > 10000
                   THEN [ i \in 1..10001 |->
                            IF i <= 10000 THEN t_text[i] ELSE "... [content truncated]" ]
                   ELSE IF Len(t_text) >= 1 THEN t_text
                   ELSE <<"Could not extract content">>

\* a text of 10,001 characters was stored, truncated
C19_Witness ==
    /\ t_pc = "stored"
    /\ Len(t_text) = 10001
    /\ Len(t_stored) = 10001
    /\ t_stored[10001] = "... [content truncated]"

----------------------------------------------------------------------------
(* Properties of the formatter *)

C28_EmptyResultFallsBack ==
    (/\ f_pc = "formatted" /\ f_mode = "ai"
     /\ "overall_summary" \in DOMAIN f_data /\ f_data.overall_summary = << >>
     /\ "article_highlights" \in DOMAIN f_data /\ f_data.article_highlights = << >>) =>
        f_digest = format_simple_digest(topic, f_articles)

----------------------------------------------------------------------------
(* Properties of the query texts and of the request budget *)

\* C27: for a topic without special-case keyword, the query text sent to the
\* provider in tier 2 is the raw topic, and in tier 3 the topic followed by
\* " news" once.
C27_TierQueriesAsIssued ==
    ((~\E i \in DOMAIN topic : topic[i] \in specific_topics) /\ s_pc = "request") =>
        /\ o_pc = "tier2" => search_query = topic
        /\ o_pc = "tier3" => search_query = topic \o <<" ", "news">>

\* the pages search_google_news asks for: range(1, num_results + 1, 10)
PagesOf(n) == (n + PAGE_SIZE - 1) \div PAGE_SIZE

\* the calls of search_google_news the orchestrator made or is waiting for
CallsMade ==
    calls.issued[1] + calls.issued[2] + calls.issued[3]
        + (IF o_pc \in {"tier1", "tier2", "tier3"} THEN 1 ELSE 0)

\* the requests the call in progress may still make
RequestsLeft ==
    IF s_pc = "request"
    THEN (max_retries + 1) * PagesOf(num_results) - Len(requests)
    ELSE 0

\* the most requests one call can make: every attempt of every page of MAX_RESULTS
CallBudget == (max_retries + 1) * PagesOf(MAX_RESULTS)

\* the calls of search_google_news the orchestrator may still return from
CallsLeft ==
    IF o_pc \in {"tier1", "tier2", "tier3"}
    THEN Len(queries) + 2 - (calls.issued[1] + calls.issued[2] + calls.issued[3])
    ELSE 0

\* a bound on the steps a started search or orchestration still takes
StepsLeft ==
    IF entry = "idle"
    THEN (MAX_QUERIES + 3) * (CallBudget + 1)
    ELSE CallsLeft * (CallBudget + 1) + RequestsLeft

\* a started search has returned, a started orchestration has returned
Finished ==
    \/ entry = "search" /\ s_pc = "returned"
    \/ entry = "orchestrate" /\ o_pc = "done"

----------------------------------------------------------------------------
(* Properties of the request handler *)

\* C21: a request with a non-empty topic is answered with status 200,
\* whatever its phone_number holds; only the empty topic is answered 400.
C21_OnlyEmptyTopicRejected ==
    (h_pc = "responded" /\ topic # << >>) => h_status = 200

\* C25: the stages of a request run in sequence: fetch_multiple_articles is
\* not started before the search has returned its list, generate_digest is
\* called only after the fetch of every article has ended, on the articles
\* returned, and the digest is formatted only after generate_digest has
\* returned (after the search has returned when no AI digest is requested).
C25_StagesInSequence ==
    /\ e_pc # "idle" =>
          /\ SearchReturned
          /\ Len(input) = Len(h_articles)
          /\ \A i \in DOMAIN input : input[i].link = h_articles[i].link
    /\ d_pc # "idle" =>
          /\ e_pc = "returned"
          /\ \A i \in DOMAIN task : task[i] = "done"
          /\ d_articles = e_result
    /\ h_digest # << >> =>
          /\ SearchReturned
          /\ IF h_ai THEN d_pc = "returned" ELSE e_pc = "idle" /\ d_pc = "idle"

\* C25 witness: a request for an AI digest was answered; two articles were
\* fetched, one after the other finished, and the model replied
C25_Witness ==
    /\ h_pc = "responded" /\ h_ai
    /\ Len(h_articles) >= 2
    /\ \A i \in DOMAIN page_outcome : page_outcome[i] # "none"
    /\ d_model = "replied"
    /\ h_digest # << >>

\* C26: the article list of the response to an accepted request is not
\* empty, and every article of it has a non-empty link.
C26_ResponseArticlesHaveLinks ==
    (h_pc = "responded" /\ h_status = 200) =>
        /\ h_articles # << >>
        /\ \A i \in DOMAIN h_articles : ~Falsy(h_articles[i].link)

\* C29: when the orchestrator returned its placeholder article, no page is
\* fetched for it, and generate_digest receives it with the content that
\* explains that no coverage was found.
C29_PlaceholderNotFetched ==
    (/\ entry = "orchestrate" /\ o_pc = "done" /\ IsPlaceholder(o_result[1])
     /\ e_pc # "idle") =>
        /\ task[1] # "fetching"
        /\ page_outcome[1] = "none"
        /\ d_pc # "idle" => d_articles[1].content = mock_article(topic).content

----------------------------------------------------------------------------
(* The specification *)

InitRest ==
    /\ GOOGLE_API_KEY \in BOOLEAN
    /\ claude_client \in BOOLEAN
    /\ topic \in Topics
    /\ entry = "idle"
    /\ s_pc = "idle"
    /\ query = << >>
    /\ num_results = 0
    /\ search_query = << >>
    /\ articles = << >>
    /\ start_index = 1
    /\ retry_count = 0
    /\ s_result = << >>
    /\ s_raised = FALSE
    /\ requests = << >>
    /\ o_pc = "idle"
    /\ queries = << >>
    /\ qi = 0
    /\ all_articles = << >>
    /\ seen_urls = {}
    /\ o_result = << >>
    /\ e_pc = "idle"
    /\ max_workers = DEFAULT_WORKERS
    /\ input = << >>
    /\ arts = << >>
    /\ task = << >>
    /\ ret = << >>
    /\ page_outcome = << >>
    /\ e_result = << >>
    /\ calls = [ issued |-> <<0, 0, 0>>, yielded |-> <<FALSE, FALSE, FALSE>>, repeated |-> FALSE ]
    /\ d_pc = "idle"
    /\ d_articles = << >>
    /\ d_sections = << >>
    /\ d_model = "none"
    /\ d_result = << >>
    /\ d_raised = FALSE
    /\ p_pc = "idle"
    /\ p_outcome = << >>
    /\ p_queries = << >>
    /\ t_pc = "idle"
    /\ t_text = << >>
    /\ t_content = << >>
    /\ t_stored = << >>
    /\ f_pc = "idle"
    /\ f_mode = "none"
    /\ f_articles = << >>
    /\ f_data = << >>
    /\ f_digest = << >>
    /\ d_prompt = << >>
    /\ h_pc = "idle"
    /\ h_phone = << >>
    /\ h_ai = FALSE
    /\ h_status = 0
    /\ h_articles = << >>
    /\ h_digest = << >>

\* the state after the module was loaded; the provider's holdings are used by
\* SpecHeld and SpecRequest only
Init ==
    /\ InitRest
    /\ held = 0

Next ==
    \/ DirectSearch
    \/ RespondOk
    \/ RespondServerError
    \/ RespondClientError
    \/ RespondTimeout
    \/ Orchestrate
    \/ Tier1Next
    \/ Tier1Last
    \/ Tier2Return
    \/ Tier3Return

Spec == Init /\ [][Next]_vars

\* C30: whatever the provider answers, a call of search_google_news makes at
\* most 3 requests per page of its result count and the orchestrator makes at
\* most (planned queries + 2) calls of search_google_news; every step of a
\* search or an orchestration lowers the number of steps it may still take,
\* and it can take a step until it has returned.
C30_BoundedAndTerminates ==
    /\ [](Len(requests) <= (max_retries + 1) * PagesOf(num_results))
    /\ [](CallsMade <= Len(queries) + 2)
    /\ [](StepsLeft >= 0 /\ (StepsLeft = 0 => Finished))
    /\ [](Finished \/ ENABLED Next)
    /\ [][StepsLeft' < StepsLeft]_vars

\* C30 witness: the third tier's call returns after it used every request of
\* its single page, as the last of (planned queries + 2) calls
C30_Witness ==
    /\ o_pc = "tier3" /\ s_pc = "returned"
    /\ CallsMade = Len(queries) + 2
    /\ Len(requests) = (max_retries + 1) * PagesOf(num_results)
    /\ Len(requests) = 3

\* fetch_multiple_articles, called on its own
InitEnrich ==
    /\ Init
    /\ GOOGLE_API_KEY /\ claude_client /\ topic = <<"pope">>

NextEnrich ==
    \/ EnrichCall
    \/ WorkerBegins
    \/ WorkerEnds
    \/ EnrichReturn

SpecEnrich == InitEnrich /\ [][NextEnrich]_vars

\* the search client and the orchestrator with a provider that holds `held` items
InitHeld ==
    /\ InitRest
    /\ held \in 0..MaxHeld

NextHeld ==
    \/ DirectSearch
    \/ RespondHeld
    \/ Orchestrate
    \/ Tier1Next
    \/ Tier1Last
    \/ Tier2Return
    \/ Tier3Return

SpecHeld == InitHeld /\ [][NextHeld]_vars

\* generate_digest, called on its own
InitDigest ==
    /\ Init
    /\ GOOGLE_API_KEY /\ topic = <<"electric", " ", "vehicles">>

NextDigest ==
    \/ DigestCall
    \/ ModelRaises
    \/ ModelReplies

SpecDigest == InitDigest /\ [][NextDigest]_vars

\* generate_search_queries, called on its own
InitPlanner ==
    /\ Init
    /\ GOOGLE_API_KEY

NextPlanner ==
    \/ PlanNoClient
    \/ PlanRaises
    \/ PlanReplies

SpecPlanner == InitPlanner /\ [][NextPlanner]_vars

\* fetch_article_content and the storing of its value, on their own
InitTrim ==
    /\ Init
    /\ GOOGLE_API_KEY /\ claude_client /\ topic = <<"pope">>

NextTrim ==
    \/ PageExtracted
    \/ ContentStored

SpecTrim == InitTrim /\ [][NextTrim]_vars

\* the formatter, called on its own
InitFormat ==
    /\ Init
    /\ GOOGLE_API_KEY

NextFormat ==
    \/ FormatSimple
    \/ FormatAi

SpecFormat == InitFormat /\ [][NextFormat]_vars

\* one request to create_digest, with a provider that holds no item or
\* RequestHeld items
InitRequest ==
    /\ InitRest
    /\ held \in {0, RequestHeld}

NextRequest ==
    \/ RequestRejected
    \/ RequestOrchestrated
    \/ RequestSearchedDirectly
    \/ RespondHeld
    \/ Tier1Next
    \/ Tier1Last
    \/ Tier2Return
    \/ Tier3Return
    \/ SearchDone
    \/ WorkerBegins
    \/ WorkerEnds
    \/ EnrichReturn
    \/ FetchDone
    \/ ModelRaises
    \/ RequestModelReplies
    \/ DigestDone

SpecRequest == InitRequest /\ [][NextRequest]_vars

====
